---- MODULE Spec2Model ----
(***************************************************************************)
(* State-machine model of the deriv-ascend-pro trading core:               *)
(*   - DerivWebSocket  (src/src/lib/deriv-websocket.ts): buyContract,      *)
(*     sellContract, the message-handler registry and handleMessage;       *)
(*   - TradeQueue      (src/unnamed/part_000): addTrade, processLoop,      *)
(*     executeTrade, handleRateLimitError, clearQueue;                     *)
(*   - TradingEngine   (src/src/lib/trading-engine.ts): handleTick,        *)
(*     analyzeSymbol, executeTrade.                                        *)
(*                                                                         *)
(* Time is Date.now() in milliseconds.  JavaScript runs one task at a      *)
(* time: a task (a socket message, a timer, a call from the UI) runs to    *)
(* completion and the promise continuations it made runnable run before    *)
(* the next task.  Each task and each continuation is one action; while a  *)
(* continuation is runnable no task can start and time does not advance.   *)
(* null / undefined timestamps are modelled as 0, which the code treats    *)
(* the same way (`x && ...`, `x || 0`); Date.now() is always positive.     *)
(***************************************************************************)
EXTENDS Integers, Sequences, FiniteSets, TLC

\* ------------------------------------------------------------- bounds
MaxTrades == 2
MaxCalls == 3
MaxPositions == 3
MaxTicks == 2
MaxOpens == 2
MaxPings == 2
MaxApiCalls == 3
MaxCloses == 2
MaxLen == 7
MaxPeriod == 3

\* -------------------------------------------------- program constants
MIN_EXECUTION_INTERVAL_MS == 2000
COOLDOWN_PER_ASSET_MS == 60000
RATE_LIMIT_BACKOFF_MS == 5000
BUY_TIMEOUT_MS == 10000
SELL_TIMEOUT_MS == 10000
MAX_RECONNECT_ATTEMPTS == 5
RECONNECT_DELAY_MS == 1000
PING_INTERVAL_MS == 30000
MIN_HISTORY == 30
HISTORY_SIZE == 100
\* DERIV_CONFIG.MIN_PROBABILITY (0.75); probabilities are in hundredths
MIN_PROBABILITY == 75
\* DERIV_CONFIG.WIN_RATE_FLOOR (0.65), in hundredths
WIN_RATE_FLOOR == 65
CALIBRATION_PAUSE_MS == 60000
\* the trade count from which closeTrade tests the win rate
MIN_TRADE_COUNT == 10

\* Instruments (a subset of DERIV_CONFIG.SYMBOLS) and the priorities callers use.
Symbols == {"R_10", "R_25"}
Priorities == {1, 5}
Directions == {"LONG", "SHORT"}
\* Object.values(DERIV_CONFIG.SYMBOLS), in order
SymbolSeq == <<"R_10", "R_25">>
\* Contract ids callers subscribe to, and the currencies of an authorize response
\* ("": the response has no currency).
ContractIds == {1, 2}
Currencies == {"", "EUR"}
\* Tick quotes, the probabilities calculateTradeProbability returns for them, and
\* the time between a tick and the task before it.
Quotes == {100, 103}
Probabilities == {70, 80}
\* the probabilities where the calibration is followed; 0.95 is the cap of
\* calculateTradeProbability
CalibrationProbabilities == {70, 95}
TickGaps == {0, 1000}

\* Error messages: the venue's error payloads and the messages the code makes.
VenueErrors == {"Insufficient balance", "Rate limit reached"}
BuyTimeoutError == "Trade execution timeout"
SellTimeoutError == "Sell contract timeout"
DebounceError == "Trade already pending for this symbol"
\* the fixed part of `Asset on cooldown. ${seconds}s remaining`
CooldownError == "Asset on cooldown"
RateLimitCancelError == "Trade cancelled due to rate limit backoff"
ManualCancelError == "Trade cancelled manually"

\* The phrases of the rate-limit test that the lower-cased message contains.
LowerPhrases(msg) ==
  CASE msg = "Rate limit reached" -> {"rate limit"}
    [] msg = "Too many requests" -> {"too many"}
    [] msg = "Request throttled" -> {"throttle"}
    [] OTHER -> {}

VARIABLES
  now,               \* Date.now()
  \* DerivWebSocket
  readyState,        \* ws.readyState
  calls,             \* every buyContract / sellContract call made: its promise
  messageHandlers,   \* msg_type -> registered handlers (each the closure of a call)
  venue,             \* requests the venue has received and not yet answered
  status,            \* the ConnectionStatus
  reconnectAttempts,
  reconnectAt,       \* when the setTimeout of attemptReconnect is due (0: none)
  pingAt,            \* when the setInterval of startPing is next due (0: no interval,
                     \* or the heartbeat is not followed)
  subscriptions,     \* the registered instruments
  tickSubs,          \* instrument -> tick-subscribe requests sent on the current
                     \* socket since the last forget_all
  tickHandlers,      \* number of handlers registered with onTick('*', ...)
  contractHandlers,  \* contract ids that have a registered handler
  contractSubs,      \* contract ids whose subscribe request was sent on the current socket
  contractSubscriptions, \* contract ids whose subscription id is stored
  account,           \* accountCurrency and accountInfo
  acks,              \* authorize responses with data.authorize received so far
  authPending,       \* the venue has an authorize request to answer
  awaitingPong,      \* the venue has a ping to answer
  heartbeatFailed,   \* a ping came due while the ping before it was unanswered
  opens,             \* sockets that have opened so far
  pings,             \* pings sent so far
  apiCalls,          \* calls of start, stop, (un)subscribeOpenContract so far
  \* TradeQueue
  trades,            \* every addTrade call made: its promise and its trade's status
  queue,             \* the QueuedTrades, each with the number of its addTrade call
  pendingSymbols,
  symbolCooldowns,
  isProcessing,
  isThrottled,
  throttleEndsAt,
  lastExecutionTime,
  pc,                \* where processLoop is: "sleep", "awaitBuy", "finally"
  current,           \* the trade processLoop shifted off the queue (NoTrade: none)
  buyCall,           \* the buyContract call executeTrade awaits (0: none)
  flushCount,        \* the count of the last 'Queue cleared' notification (-1: none)
  \* TradingEngine
  isRunning,
  isPaused,          \* stats.isPaused
  priceHistory,
  symbolAdjustments, \* instrument -> its adjustment, a double (0 when the Map has no entry)
  positions,         \* every Trade object executeTrade made
  activeTrades,      \* trade id -> its Trade object (an index into positions)
  ticks,             \* ticks delivered so far
  signals,           \* signals handed to the signal handlers so far
  totalTrades,       \* stats.totalTrades
  wins,              \* stats.wins
  pauseTimers,       \* when the setTimeouts of pauseForCalibration are due, in order
  pausedAt,          \* when pauseForCalibration last ran (0: never)
  lossRun,           \* instrument -> losses recorded since its adjustment was last zero
  closes,            \* closeTrade calls so far
  \* what the engine shows to its observers
  tradeJournal,      \* the closed trades, each the index of its position (0: a trade
                     \* closed before the positions followed here)
  losses,            \* stats.losses
  winRate,           \* stats.winRate, the quotient of two counts
  activeTradesCount, \* stats.activeTradesCount
  notified,          \* the positions handed to the trade handlers by the last step
                     \* of the engine
  \* indicators
  prices,            \* the series handed to calculateAllIndicators, in thousandths
  period,            \* the period the indicators are calculated with
  indicators         \* the IndicatorResult (NotCalculated: not calculated yet)

connVars == <<status, reconnectAttempts, reconnectAt, pingAt, subscriptions, tickSubs,
              tickHandlers, contractHandlers, contractSubs, contractSubscriptions,
              account, acks, authPending, awaitingPong, heartbeatFailed, opens, pings,
              apiCalls>>
wsVars == <<readyState, calls, messageHandlers, venue, connVars>>
queueVars == <<trades, queue, pendingSymbols, symbolCooldowns, isProcessing,
               isThrottled, throttleEndsAt, lastExecutionTime, pc, current,
               buyCall, flushCount>>
calibVars == <<totalTrades, wins, pauseTimers, pausedAt, lossRun, closes>>
indicatorVars == <<prices, period, indicators>>
observerVars == <<tradeJournal, losses, winRate, activeTradesCount, notified>>
engineRest == <<isPaused, priceHistory, symbolAdjustments, positions, activeTrades, ticks,
                signals, calibVars, indicatorVars, observerVars>>
engineVars == <<isRunning, engineRest>>
vars == <<now, wsVars, queueVars, engineVars>>

\* ------------------------------------------------------------ helpers
Min(a, b) == IF a <= b THEN a ELSE b

Range(s) == {s[i] : i \in DOMAIN s}

RECURSIVE IndexOf(_, _, _)
\* Array.prototype.indexOf from position k: 0 when absent.
IndexOf(s, x, k) ==
  IF k > Len(s) THEN 0 ELSE IF s[k] = x THEN k ELSE IndexOf(s, x, k + 1)

\* Array.prototype.splice(idx, 1)
Splice1(s, idx) == [j \in 1..(Len(s) - 1) |-> IF j < idx THEN s[j] ELSE s[j + 1]]

\* A TradeResult; settled = FALSE is a promise not yet resolved.
NoResult == [settled |-> FALSE, success |-> FALSE, error |-> "", contractId |-> 0]
Success(cid) == [settled |-> TRUE, success |-> TRUE, error |-> "", contractId |-> cid]
Failure(msg) == [settled |-> TRUE, success |-> FALSE, error |-> msg, contractId |-> 0]

\* Promise resolve: the first call settles the promise, later calls do nothing.
Resolve(old, result) == IF old.settled THEN old ELSE result


\* ===================================================== DerivWebSocket
\* A key of the messageHandlers map: 'buy' is Key("buy", 0), `buy_${reqId}` is
\* Key("buy", reqId) (reqId = Date.now() > 0).
Key(type, req) == [type |-> type, req |-> req]

\* Map.get(key) || []
Get(mh, key) == IF key \in DOMAIN mh THEN mh[key] ELSE <<>>

\* Map.set(key, value)
MapSet(mh, key, value) == [k \in DOMAIN mh \cup {key} |-> IF k = key THEN value ELSE mh[k]]

\* Map.delete(key)
MapDelete(mh, key) == [k \in DOMAIN mh \ {key} |-> mh[k]]

\* onMessage(msgType, handler): the handler is the closure of call c.
OnMessage(mh, type, c) == MapSet(mh, Key(type, 0), Append(Get(mh, Key(type, 0)), c))

\* send(data): the request reaches the venue only when the socket is OPEN.
Send(v, state, c) == IF state = "OPEN" THEN v \cup {c} ELSE v

\* A call of buyContract / sellContract: its promise and its request.
NewCall(kind, caller) ==
  [kind |-> kind, caller |-> caller, reqId |-> now, result |-> NoResult, answeredBy |-> 0]

\* When the setTimeout of a call is due.
Deadline(call) ==
  call.reqId + (IF call.kind = "buy" THEN BUY_TIMEOUT_MS ELSE SELL_TIMEOUT_MS)

\* The TradeResult a handler builds from a message: data.buy / data.sell, else
\* data.error.  The venue's contract id is the number of the request it answers.
ResultOf(data) == IF data.ok THEN Success(data.req) ELSE Failure(data.error)

\* resolve(...) inside the handler or the timer of call c.
ResolveCall(cs, c, result, by) ==
  IF cs[c].result.settled THEN cs
  ELSE [cs EXCEPT ![c].result = result, ![c].answeredBy = by]

\* The handler closure of buyContract call c, run on a message.
BuyHandler(c, mh, cs, data) ==
  [cs |-> ResolveCall(cs, c, ResultOf(data), data.req),
   mh |-> MapDelete(mh, Key("buy", cs[c].reqId))]

\* The handler closure of sellContract call c, run on a message.
SellHandler(c, mh, cs, data) ==
  LET handlers == Get(mh, Key("sell", 0))
      idx == IndexOf(handlers, c, 1)
  IN [cs |-> ResolveCall(cs, c, ResultOf(data), data.req),
      mh |-> IF idx > 0 THEN MapSet(mh, Key("sell", 0), Splice1(handlers, idx)) ELSE mh]

RECURSIVE ForEachHandler(_, _, _, _)
\* handlers.forEach(handler => handler(data)) over the array registered for
\* data.msg_type: position k is visited only while the array still has it.
ForEachHandler(k, mh, cs, data) ==
  LET handlers == Get(mh, Key(data.msg_type, 0))
  IN IF k > Len(handlers) THEN [mh |-> mh, cs |-> cs]
     ELSE LET c == handlers[k]
              r == IF cs[c].kind = "buy" THEN BuyHandler(c, mh, cs, data)
                   ELSE SellHandler(c, mh, cs, data)
          IN ForEachHandler(k + 1, r.mh, r.cs, data)

\* handleMessage(data) for a 'buy' or 'sell' message.
HandleMessage(mh, cs, data) == ForEachHandler(1, mh, cs, data)

\* A promise continuation is runnable: the awaited buyContract of executeTrade
\* has settled, or processLoop is about to run its finally block.
ContinuationRunnable ==
  \/ pc = "finally"
  \/ pc = "awaitBuy" /\ calls[buyCall].result.settled
  \/ \E k \in DOMAIN positions :
       positions[k].awaiting /\ calls[positions[k].call].result.settled

Unsettled == {c \in DOMAIN calls : ~calls[c].result.settled}

\* The venue answers request c: ws.onmessage -> handleMessage.
VenueRespond(c, ok, err) ==
  /\ ~ContinuationRunnable
  /\ c \in venue
  /\ LET data == [msg_type |-> calls[c].kind, req |-> c, ok |-> ok,
                  error |-> IF ok THEN "" ELSE err]
         r == HandleMessage(messageHandlers, calls, data)
     IN /\ calls' = r.cs
        /\ messageHandlers' = r.mh
  /\ venue' = venue \ {c}
  /\ UNCHANGED <<now, readyState, connVars>>

\* The setTimeout callback of call c fires (a timer fires at its deadline).
CallTimeout(c) ==
  /\ ~ContinuationRunnable
  /\ c \in Unsettled
  /\ now >= Deadline(calls[c])
  /\ calls' = ResolveCall(calls, c,
                Failure(IF calls[c].kind = "buy" THEN BuyTimeoutError ELSE SellTimeoutError), 0)
  /\ UNCHANGED <<now, readyState, messageHandlers, venue, connVars>>

\* ========================================================= TradeQueue
NoTrade == [id |-> 0, symbol |-> "", priority |-> 0, addedAt |-> 0]

\* The sort comparator of addTrade over QueuedTrades a and b.
Compare(a, b) ==
  IF b.priority # a.priority THEN b.priority - a.priority ELSE a.addedAt - b.addedAt

\* this.pendingSymbols.has(symbol)
HasPendingNever(pending, symbol) == FALSE
HasPending(pending, symbol) == symbol \in pending

RECURSIVE InsertStable(_, _)
\* x put behind every element that does not compare greater than it.
InsertStable(s, x) ==
  IF s = <<>> THEN <<x>>
  ELSE IF Compare(Head(s), x) <= 0 THEN <<Head(s)>> \o InsertStable(Tail(s), x)
  ELSE <<x>> \o s

\* the queue left in arrival order
SortQueueArrival(q) == q

RECURSIVE SortQueue(_)
\* Array.prototype.sort with Compare: a stable sort.
SortQueue(q) ==
  IF q = <<>> THEN <<>>
  ELSE InsertStable(SortQueue(SubSeq(q, 1, Len(q) - 1)), q[Len(q)])

\* errorLower.includes('rate limit') || includes('too many') || includes('throttle')
IsRateLimitError(msg) ==
  \/ "rate limit" \in LowerPhrases(msg)
  \/ "too many" \in LowerPhrases(msg)
  \/ "throttle" \in LowerPhrases(msg)

\* The cooldown test of addTrade and isInCooldown.
IsInCooldown(cooldownEnd, t) == cooldownEnd # 0 /\ t < cooldownEnd

\* trade.status = status; trade.resolve(result)
ResolveTrade(ts, t, tradeStatus, result) ==
  [ts EXCEPT ![t].status = tradeStatus,
             ![t].result = Resolve(ts[t].result, result),
             ![t].resolveCalls = ts[t].resolveCalls + 1]

\* the trades dropped without their promises being resolved
CancelAllUnresolved(ts, q, err) == ts

RECURSIVE CancelAll(_, _, _)
\* cancelledTrades.forEach: status 'cancelled', resolve with the given error.
CancelAll(ts, q, err) ==
  IF q = <<>> THEN ts
  ELSE CancelAll(ResolveTrade(ts, Head(q).id, "cancelled", Failure(err)), Tail(q), err)

SymbolsOf(q) == {q[i].symbol : i \in DOMAIN q}

\* The promise of a new addTrade call, before the call decides anything.
NewPromise(symbol) ==
  [symbol |-> symbol, status |-> "none", result |-> NoResult, resolveCalls |-> 0]

\* addTrade(symbol, ..., priority), while fewer than limit calls have been made
AddTradeWithin(symbol, priority, limit) ==
  /\ pc = "awaitBuy" => ~calls[buyCall].result.settled
  /\ Len(trades) < limit
  /\ LET t == Len(trades) + 1
         ts == Append(trades, NewPromise(symbol))
     IN IF HasPending(pendingSymbols, symbol)
        THEN /\ trades' = ResolveTrade(ts, t, "none", Failure(DebounceError))
             /\ UNCHANGED <<queue, pendingSymbols>>
        ELSE IF IsInCooldown(symbolCooldowns[symbol], now)
        THEN /\ trades' = ResolveTrade(ts, t, "none", Failure(CooldownError))
             /\ UNCHANGED <<queue, pendingSymbols>>
        ELSE /\ trades' = [ts EXCEPT ![t].status = "pending"]
             /\ queue' = SortQueue(Append(queue, [id |-> t, symbol |-> symbol,
                                                  priority |-> priority, addedAt |-> now]))
             /\ pendingSymbols' = pendingSymbols \cup {symbol}
  /\ UNCHANGED <<now, wsVars, engineVars, symbolCooldowns, isProcessing, isThrottled,
                 throttleEndsAt, lastExecutionTime, pc, current, buyCall, flushCount>>

\* addTrade(symbol, ..., priority)
AddTrade(symbol, priority) == AddTradeWithin(symbol, priority, MaxTrades)

\* queue.shift(), isProcessing = true and executeTrade up to the request of
\* buyContract.
ShiftAndSend ==
  /\ queue' = Tail(queue)
  /\ current' = Head(queue)
  /\ isProcessing' = TRUE
  /\ trades' = [trades EXCEPT ![Head(queue).id].status = "executing"]
  /\ calls' = Append(calls, NewCall("buy", "queue"))
  /\ messageHandlers' = OnMessage(messageHandlers, "buy", Len(calls) + 1)
  /\ venue' = Send(venue, readyState, Len(calls) + 1)
  /\ buyCall' = Len(calls) + 1
  /\ UNCHANGED <<now, engineVars, readyState, connVars, pendingSymbols, symbolCooldowns,
                 lastExecutionTime, flushCount>>

\* an iteration that does not wait for executeTrade
ProcessLoopIterationNoAwait ==
  /\ pc = "sleep"
  /\ Len(queue) # 0
  /\ Len(calls) < MaxCalls
  /\ ~(isThrottled /\ now < throttleEndsAt)
  /\ ~(lastExecutionTime # 0 /\ now - lastExecutionTime < MIN_EXECUTION_INTERVAL_MS)
  /\ ShiftAndSend
  /\ UNCHANGED <<pc, isThrottled, throttleEndsAt>>

\* an iteration without the test of the throttle window
ProcessLoopIterationUnthrottled ==
  /\ pc = "sleep"
  /\ ~isProcessing
  /\ Len(queue) # 0
  /\ ~(lastExecutionTime # 0 /\ now - lastExecutionTime < MIN_EXECUTION_INTERVAL_MS)
  /\ ShiftAndSend
  /\ pc' = "awaitBuy"
  /\ UNCHANGED <<isThrottled, throttleEndsAt>>

\* an iteration without the test of the minimum interval
ProcessLoopIterationNoInterval ==
  /\ pc = "sleep"
  /\ ~isProcessing
  /\ Len(queue) # 0
  /\ ~(isThrottled /\ now < throttleEndsAt)
  /\ ShiftAndSend
  /\ pc' = "awaitBuy"
  /\ isThrottled' = FALSE
  /\ throttleEndsAt' = IF isThrottled THEN 0 ELSE throttleEndsAt

\* One iteration of processLoop after its sleep, up to `await executeTrade`,
\* and executeTrade up to `await derivWS.buyContract`.
ProcessLoopIteration ==
  /\ pc = "sleep"
  /\ IF isProcessing \/ Len(queue) = 0
     THEN UNCHANGED <<wsVars, queueVars>>
     ELSE IF isThrottled /\ now < throttleEndsAt
     THEN UNCHANGED <<wsVars, queueVars>>
     ELSE /\ isThrottled' = FALSE
          /\ throttleEndsAt' = IF isThrottled THEN 0 ELSE throttleEndsAt
          /\ IF lastExecutionTime # 0 /\ now - lastExecutionTime < MIN_EXECUTION_INTERVAL_MS
             THEN UNCHANGED <<wsVars, trades, queue, isProcessing, pc, current, buyCall>>
             ELSE /\ queue' = Tail(queue)
                  /\ current' = Head(queue)
                  /\ isProcessing' = TRUE
                  /\ trades' = [trades EXCEPT ![Head(queue).id].status = "executing"]
                  /\ calls' = Append(calls, NewCall("buy", "queue"))
                  /\ messageHandlers' = OnMessage(messageHandlers, "buy", Len(calls) + 1)
                  /\ venue' = Send(venue, readyState, Len(calls) + 1)
                  /\ buyCall' = Len(calls) + 1
                  /\ pc' = "awaitBuy"
                  /\ UNCHANGED <<readyState, connVars>>
          /\ UNCHANGED <<pendingSymbols, symbolCooldowns, lastExecutionTime, flushCount>>
  /\ UNCHANGED <<now, engineVars>>

\* a flush that spares the head of the queue
HandleRateLimitErrorPartial(q, pending, ts, t) ==
  [isThrottled |-> TRUE,
   throttleEndsAt |-> t + RATE_LIMIT_BACKOFF_MS,
   queue |-> IF q = <<>> THEN q ELSE <<Head(q)>>,
   pendingSymbols |-> pending \ SymbolsOf(IF q = <<>> THEN q ELSE Tail(q)),
   trades |-> CancelAll(ts, IF q = <<>> THEN q ELSE Tail(q), RateLimitCancelError),
   flushCount |-> IF q = <<>> THEN 0 ELSE Len(q) - 1]

\* a flush that takes the intents off the queue and resolves none of them
HandleRateLimitErrorUnresolved(q, pending, ts, t) ==
  [isThrottled |-> TRUE,
   throttleEndsAt |-> t + RATE_LIMIT_BACKOFF_MS,
   queue |-> <<>>,
   pendingSymbols |-> pending \ SymbolsOf(q),
   trades |-> ts,
   flushCount |-> Len(q)]

\* handleRateLimitError(): the queue state it leaves and the count it notifies.
HandleRateLimitError(q, pending, ts, t) ==
  [isThrottled |-> TRUE,
   throttleEndsAt |-> t + RATE_LIMIT_BACKOFF_MS,
   queue |-> <<>>,
   pendingSymbols |-> pending \ SymbolsOf(q),
   trades |-> CancelAll(ts, q, RateLimitCancelError),
   flushCount |-> Len(q)]

\* executeTrade after `await derivWS.buyContract` has settled, to its return.
ExecuteTradeResume ==
  /\ pc = "awaitBuy"
  /\ calls[buyCall].result.settled
  /\ LET result == calls[buyCall].result
     IN /\ lastExecutionTime' = now
        /\ IF ~result.success /\ result.error # "" /\ IsRateLimitError(result.error)
           THEN LET r == HandleRateLimitError(queue, pendingSymbols, trades, now)
                IN /\ isThrottled' = r.isThrottled
                   /\ throttleEndsAt' = r.throttleEndsAt
                   /\ queue' = r.queue
                   /\ pendingSymbols' = r.pendingSymbols
                   /\ flushCount' = r.flushCount
                   /\ trades' = ResolveTrade(r.trades, current.id, "failed", result)
                   /\ UNCHANGED symbolCooldowns
           ELSE /\ symbolCooldowns' = [symbolCooldowns EXCEPT
                                         ![current.symbol] = now + COOLDOWN_PER_ASSET_MS]
                /\ trades' = ResolveTrade(trades, current.id,
                                          IF result.success THEN "completed" ELSE "failed", result)
                /\ UNCHANGED <<queue, pendingSymbols, isThrottled, throttleEndsAt, flushCount>>
  /\ pc' = "finally"
  /\ UNCHANGED <<now, wsVars, engineVars, isProcessing, current, buyCall>>

\* The finally block of processLoop.
ProcessLoopFinally ==
  /\ pc = "finally"
  /\ isProcessing' = FALSE
  /\ pendingSymbols' = pendingSymbols \ {current.symbol}
  /\ pc' = "sleep"
  /\ current' = NoTrade
  /\ buyCall' = 0
  /\ UNCHANGED <<now, wsVars, engineVars, trades, queue, symbolCooldowns, isThrottled,
                 throttleEndsAt, lastExecutionTime, flushCount>>

\* clearQueue()
ClearQueue ==
  /\ pc = "awaitBuy" => ~calls[buyCall].result.settled
  /\ queue # <<>>
  /\ queue' = <<>>
  /\ pendingSymbols' = pendingSymbols \ SymbolsOf(queue)
  /\ trades' = CancelAll(trades, queue, ManualCancelError)
  /\ UNCHANGED <<now, wsVars, engineVars, symbolCooldowns, isProcessing, isThrottled,
                 throttleEndsAt, lastExecutionTime, pc, current, buyCall, flushCount>>

\* ====================================================== direct calls
\* buyContract(...) called directly (TradingEngine.executeTrade does so).
BuyContract(caller) ==
  /\ ~ContinuationRunnable
  /\ Len(calls) < MaxCalls
  /\ calls' = Append(calls, NewCall("buy", caller))
  /\ messageHandlers' = OnMessage(messageHandlers, "buy", Len(calls) + 1)
  /\ venue' = Send(venue, readyState, Len(calls) + 1)
  /\ UNCHANGED <<now, readyState, connVars>>

\* sellContract(contractId, 0) (ActiveTrades.handleCloseTrade calls it).
SellContract(caller) ==
  /\ ~ContinuationRunnable
  /\ Len(calls) < MaxCalls
  /\ calls' = Append(calls, NewCall("sell", caller))
  /\ messageHandlers' = OnMessage(messageHandlers, "sell", Len(calls) + 1)
  /\ venue' = Send(venue, readyState, Len(calls) + 1)
  /\ UNCHANGED <<now, readyState, connVars>>

\* ================================================ connection lifecycle
RECURSIVE Pow2(_)
\* Math.pow(2, n)
Pow2(n) == IF n <= 0 THEN 1 ELSE 2 * Pow2(n - 1)

NoTickSubs == [s \in Symbols |-> 0]

\* send({ticks: symbol, subscribe: 1}) on the current socket
SendTick(sent, state, symbol) ==
  IF state = "OPEN" THEN [sent EXCEPT ![symbol] = @ + 1] ELSE sent

\* resubscribe(): nothing is sent
ResubscribeNothing(subs, sent, state) == sent

\* resubscribe(): a tick-subscribe request for every registered instrument.
Resubscribe(subs, sent, state) ==
  [s \in Symbols |-> IF s \in subs /\ state = "OPEN" THEN sent[s] + 1 ELSE sent[s]]

\* subscribeTicks(symbol)
SubscribeTicks(subs, sent, state, symbol) ==
  [subscriptions |-> subs \cup {symbol}, tickSubs |-> SendTick(sent, state, symbol)]

\* unsubscribeTicks(symbol): forget_all, then a request for every remaining one.
UnsubscribeTicks(subs, sent, state, symbol) ==
  LET rest == subs \ {symbol}
      forgotten == IF state = "OPEN" THEN NoTickSubs ELSE sent
  IN [subscriptions |-> rest, tickSubs |-> Resubscribe(rest, forgotten, state)]

RECURSIVE SubscribeAll(_, _, _, _)
\* Object.values(SYMBOLS).forEach(symbol => derivWS.subscribeTicks(symbol)) from k
SubscribeAll(k, subs, sent, state) ==
  IF k > Len(SymbolSeq) THEN [subscriptions |-> subs, tickSubs |-> sent]
  ELSE LET r == SubscribeTicks(subs, sent, state, SymbolSeq[k])
       IN SubscribeAll(k + 1, r.subscriptions, r.tickSubs, state)

RECURSIVE UnsubscribeAll(_, _, _, _)
\* Object.values(SYMBOLS).forEach(symbol => derivWS.unsubscribeTicks(symbol)) from k
UnsubscribeAll(k, subs, sent, state) ==
  IF k > Len(SymbolSeq) THEN [subscriptions |-> subs, tickSubs |-> sent]
  ELSE LET r == UnsubscribeTicks(subs, sent, state, SymbolSeq[k])
       IN UnsubscribeAll(k + 1, r.subscriptions, r.tickSubs, state)

\* attemptReconnect() without its limit
AttemptReconnectAlways(attempts, t) ==
  [reconnectAttempts |-> attempts + 1,
   reconnectAt |-> t + RECONNECT_DELAY_MS * Pow2(attempts)]

\* attemptReconnect() with the same delay for every attempt
AttemptReconnectFixedDelay(attempts, t) ==
  IF attempts >= MAX_RECONNECT_ATTEMPTS
  THEN [reconnectAttempts |-> attempts, reconnectAt |-> 0]
  ELSE [reconnectAttempts |-> attempts + 1, reconnectAt |-> t + RECONNECT_DELAY_MS]

\* attemptReconnect(): the counter and the timer it leaves.
AttemptReconnect(attempts, t) ==
  IF attempts >= MAX_RECONNECT_ATTEMPTS
  THEN [reconnectAttempts |-> attempts, reconnectAt |-> 0]
  ELSE [reconnectAttempts |-> attempts + 1,
        reconnectAt |-> t + RECONNECT_DELAY_MS * Pow2(attempts + 1 - 1)]

NoAccount == [currency |-> "", balance |-> 0, loginid |-> ""]

\* accountCurrency and accountInfo after an authorize response with this currency.
StoreAccount(acc, currency) ==
  [accountCurrency |-> IF currency # "" THEN currency ELSE acc.accountCurrency,
   accountInfo |-> [currency |-> IF currency # "" THEN currency ELSE "USD",
                    balance |-> 50, loginid |-> "CR1"]]

\* ws.onopen: status, authorize(), startPing().
SocketOpen ==
  /\ ~ContinuationRunnable
  /\ readyState = "CONNECTING"
  /\ opens < MaxOpens
  /\ readyState' = "OPEN"
  /\ status' = "connected"
  /\ reconnectAttempts' = 0
  /\ authPending' = TRUE
  /\ pingAt' = now + PING_INTERVAL_MS
  /\ opens' = opens + 1
  /\ UNCHANGED <<now, calls, messageHandlers, venue, reconnectAt, subscriptions, tickSubs,
                 tickHandlers, contractHandlers, contractSubs, contractSubscriptions,
                 account, acks, awaitingPong, heartbeatFailed, pings, apiCalls>>

\* an error event that leaves the socket as it is
SocketErrorKeepsSocket ==
  /\ ~ContinuationRunnable
  /\ readyState \in {"CONNECTING", "OPEN"}
  /\ status # "error"
  /\ status' = "error"
  /\ UNCHANGED <<now, readyState, calls, messageHandlers, venue, reconnectAttempts,
                 reconnectAt, pingAt, subscriptions, tickSubs, tickHandlers,
                 contractHandlers, contractSubs, contractSubscriptions, account, acks,
                 authPending, awaitingPong, heartbeatFailed, opens, pings, apiCalls>>

\* The socket has failed and its error event has been handled: a WebSocket
\* fires error only when it fails, its readyState already CLOSED, and fires
\* close next, in the same task.
FailedSocket == readyState = "CLOSED" /\ status = "error"

\* The close event of the socket is due: the socket is closing after
\* disconnect(), or it has failed.
CloseEventDue == readyState = "CLOSING" \/ FailedSocket

\* ws.onerror: the socket has failed.
SocketError ==
  /\ ~ContinuationRunnable
  /\ readyState \in {"CONNECTING", "OPEN", "CLOSING"}
  /\ readyState' = "CLOSED"
  /\ status' = "error"
  /\ UNCHANGED <<now, calls, messageHandlers, venue, reconnectAttempts,
                 reconnectAt, pingAt, subscriptions, tickSubs, tickHandlers,
                 contractHandlers, contractSubs, contractSubscriptions, account, acks,
                 authPending, awaitingPong, heartbeatFailed, opens, pings, apiCalls>>

\* ws.onclose: the socket is gone with the requests the venue had not answered;
\* stopPing(), attemptReconnect().
SocketClose ==
  /\ ~ContinuationRunnable
  /\ readyState \in {"CONNECTING", "OPEN"} \/ CloseEventDue
  /\ readyState' = "CLOSED"
  /\ venue' = {}
  /\ authPending' = FALSE
  /\ awaitingPong' = FALSE
  /\ heartbeatFailed' = FALSE
  /\ status' = "disconnected"
  /\ pingAt' = 0
  /\ LET r == AttemptReconnect(reconnectAttempts, now)
     IN /\ reconnectAttempts' = r.reconnectAttempts
        /\ reconnectAt' = r.reconnectAt
  /\ UNCHANGED <<now, calls, messageHandlers, subscriptions, tickSubs, tickHandlers,
                 contractHandlers, contractSubs, contractSubscriptions, account, acks, opens,
                 pings, apiCalls>>

\* The setTimeout of attemptReconnect fires: connect() makes a new socket, which
\* has none of the subscriptions of the old one.
ReconnectTimer ==
  /\ ~ContinuationRunnable
  /\ reconnectAt # 0
  /\ now >= reconnectAt
  /\ reconnectAt' = 0
  /\ IF readyState = "OPEN"
     THEN UNCHANGED <<readyState, status, tickSubs, contractSubs>>
     ELSE /\ status' = "connecting"
          /\ readyState' = "CONNECTING"
          /\ tickSubs' = NoTickSubs
          /\ contractSubs' = {}
  /\ UNCHANGED <<now, calls, messageHandlers, venue, reconnectAttempts, pingAt,
                 subscriptions, tickHandlers, contractHandlers, contractSubscriptions,
                 account, acks, authPending, awaitingPong, heartbeatFailed, opens, pings,
                 apiCalls>>

\* disconnect(): stopPing(), ws.close(), ws = null. The close event of the
\* socket comes later.
Disconnect ==
  /\ ~ContinuationRunnable
  /\ ~CloseEventDue
  /\ pingAt' = 0
  /\ readyState' = IF readyState \in {"CONNECTING", "OPEN"} THEN "CLOSING" ELSE readyState
  /\ UNCHANGED <<now, calls, messageHandlers, venue, status, reconnectAttempts, reconnectAt,
                 subscriptions, tickSubs, tickHandlers, contractHandlers, contractSubs,
                 contractSubscriptions, account, acks, authPending, awaitingPong,
                 heartbeatFailed, opens, pings, apiCalls>>

\* The venue answers the authorize request: handleMessage with data.authorize
\* (ok) or with data.error only.
AuthorizeResponse(ok, currency) ==
  /\ ~ContinuationRunnable
  /\ authPending
  /\ readyState = "OPEN"
  /\ authPending' = FALSE
  /\ IF ok
     THEN /\ account' = StoreAccount(account, currency)
          /\ acks' = acks + 1
          /\ status' = "authorized"
          /\ tickSubs' = Resubscribe(subscriptions, tickSubs, readyState)
     ELSE UNCHANGED <<account, acks, status, tickSubs>>
  /\ UNCHANGED <<now, readyState, calls, messageHandlers, venue, reconnectAttempts,
                 reconnectAt, pingAt, subscriptions, tickHandlers, contractHandlers,
                 contractSubs, contractSubscriptions, awaitingPong, heartbeatFailed,
                 opens, pings, apiCalls>>

\* subscribeOpenContract(contractId, handler)
SubscribeOpenContract(cid) ==
  /\ ~ContinuationRunnable
  /\ apiCalls < MaxApiCalls
  /\ apiCalls' = apiCalls + 1
  /\ contractHandlers' = contractHandlers \cup {cid}
  /\ contractSubs' = IF readyState = "OPEN" THEN contractSubs \cup {cid} ELSE contractSubs
  /\ UNCHANGED <<now, readyState, calls, messageHandlers, venue, status, reconnectAttempts,
                 reconnectAt, pingAt, subscriptions, tickSubs, tickHandlers,
                 contractSubscriptions, account, acks, authPending, awaitingPong,
                 heartbeatFailed, opens, pings>>

\* unsubscribeOpenContract(contractId)
UnsubscribeOpenContract(cid) ==
  /\ ~ContinuationRunnable
  /\ apiCalls < MaxApiCalls
  /\ apiCalls' = apiCalls + 1
  /\ IF cid \in contractSubscriptions
     THEN /\ contractSubs' = IF readyState = "OPEN" THEN contractSubs \ {cid}
                             ELSE contractSubs
          /\ contractSubscriptions' = contractSubscriptions \ {cid}
     ELSE UNCHANGED <<contractSubs, contractSubscriptions>>
  /\ contractHandlers' = contractHandlers \ {cid}
  /\ UNCHANGED <<now, readyState, calls, messageHandlers, venue, status, reconnectAttempts,
                 reconnectAt, pingAt, subscriptions, tickSubs, tickHandlers, account, acks,
                 authPending, awaitingPong, heartbeatFailed, opens, pings>>

\* A proposal_open_contract message with a subscription id: handleMessage.
ContractUpdate(cid) ==
  /\ ~ContinuationRunnable
  /\ readyState = "OPEN"
  /\ cid \in contractSubs
  /\ cid \notin contractSubscriptions
  /\ contractSubscriptions' = contractSubscriptions \cup {cid}
  /\ UNCHANGED <<now, readyState, calls, messageHandlers, venue, status, reconnectAttempts,
                 reconnectAt, pingAt, subscriptions, tickSubs, tickHandlers,
                 contractHandlers, contractSubs, account, acks, authPending, awaitingPong,
                 heartbeatFailed, opens, pings, apiCalls>>

\* The setInterval callback of startPing: send({ping: 1}).
Ping ==
  /\ ~ContinuationRunnable
  /\ ~FailedSocket
  /\ pingAt # 0
  /\ now >= pingAt
  /\ pings < MaxPings
  /\ pings' = pings + 1
  /\ pingAt' = pingAt + PING_INTERVAL_MS
  /\ awaitingPong' = (readyState = "OPEN")
  /\ heartbeatFailed' = (heartbeatFailed \/ awaitingPong \/ readyState # "OPEN")
  /\ UNCHANGED <<now, readyState, calls, messageHandlers, venue, status, reconnectAttempts,
                 reconnectAt, subscriptions, tickSubs, tickHandlers, contractHandlers,
                 contractSubs, contractSubscriptions, account, acks, authPending, opens,
                 apiCalls>>

\* The venue answers the ping: handleMessage finds nothing to do.
Pong ==
  /\ ~ContinuationRunnable
  /\ awaitingPong
  /\ readyState = "OPEN"
  /\ awaitingPong' = FALSE
  /\ UNCHANGED <<now, readyState, calls, messageHandlers, venue, status, reconnectAttempts,
                 reconnectAt, pingAt, subscriptions, tickSubs, tickHandlers,
                 contractHandlers, contractSubs, contractSubscriptions, account, acks,
                 authPending, heartbeatFailed, opens, pings, apiCalls>>

\* ====================================================== TradingEngine
\* The key of activeTrades that executeTrade uses: `${symbol}_${direction}_${Date.now()}`,
\* and the key that analyzeSymbol looks up: `${symbol}_${direction}` (openTime 0).
TradeId(symbol, direction, openTime) ==
  [symbol |-> symbol, direction |-> direction, openTime |-> openTime]

Last(s) == IF s = <<>> THEN 0 ELSE s[Len(s)]

\* history.push(quote), then history.shift() beyond HISTORY_SIZE
PushHistory(history, quote) ==
  LET h == Append(history, quote)
  IN IF Len(h) > HISTORY_SIZE THEN Tail(h) ELSE h

\* updateActiveTrades(tick): current price and P/L of the open trades of the symbol.
UpdateActiveTrades(ps, active, symbol, quote) ==
  [k \in DOMAIN ps |->
     IF (\E id \in DOMAIN active : active[id] = k)
        /\ ps[k].symbol = symbol /\ ps[k].status = "open"
     THEN [ps[k] EXCEPT !.currentPrice = quote,
                        !.profit = (quote - ps[k].entryPrice)
                                     * (IF ps[k].direction = "LONG" THEN 1 ELSE -1) * 100]
     ELSE ps[k]]

\* ---- IEEE-754 doubles
\* A double in [0, 2) is held as the count of its units of 2^-58 (the last bit
\* of the doubles in the binade of 0.02) in two limbs: hi * Limb + lo, 0 <= lo < Limb.
Limb == 536870912
Zero == [hi |-> 0, lo |-> 0]
One == [hi |-> Limb, lo |-> 0]
\* the literal 0.02 (0x3F947AE147AE147B)
ADJUSTMENT_STEP == [hi |-> 10737418, lo |-> 128849019]

\* The double of a literal given in hundredths: 0.70, 0.75, 0.80, 0.95.
ToDouble(hundredths) ==
  CASE hundredths = 70 -> [hi |-> 375809638, lo |-> 214748352]
    [] hundredths = 75 -> [hi |-> 402653184, lo |-> 0]
    [] hundredths = 80 -> [hi |-> 429496729, lo |-> 322122560]
    [] hundredths = 95 -> [hi |-> 510027366, lo |-> 214748352]

Carry(hi, lo) ==
  IF lo >= Limb THEN [hi |-> hi + 1, lo |-> lo - Limb]
  ELSE IF lo < 0 THEN [hi |-> hi - 1, lo |-> lo + Limb]
  ELSE [hi |-> hi, lo |-> lo]

Less(a, b) == a.hi < b.hi \/ (a.hi = b.hi /\ a.lo < b.lo)

\* The bits of lo that a 53-bit significand does not hold: none below 2^-5,
\* one in [2^-5, 2^-4), ..., six in [1, 2).
ExtraBits(hi) ==
  IF hi < Pow2(24) THEN 0
  ELSE IF hi < Pow2(25) THEN 1
  ELSE IF hi < Pow2(26) THEN 2
  ELSE IF hi < Pow2(27) THEN 3
  ELSE IF hi < Pow2(28) THEN 4
  ELSE IF hi < Pow2(29) THEN 5
  ELSE 6

\* Round to nearest double, ties to even.
RoundToDouble(x) ==
  LET m == Pow2(ExtraBits(x.hi))
      q == x.lo \div m
      r == x.lo % m
      up == (2 * r > m) \/ (2 * r = m /\ q % 2 = 1)
  IN Carry(x.hi, (q + (IF up THEN 1 ELSE 0)) * m)

\* a + b
DoubleAdd(a, b) == RoundToDouble(Carry(a.hi + b.hi, a.lo + b.lo))

\* a - b, for a >= b
DoubleSub(a, b) == RoundToDouble(Carry(a.hi - b.hi, a.lo - b.lo))

\* Math.max(0, Math.min(1, probability - adjustment))
AdjustedProbability(probability, adjustment) ==
  IF Less(probability, adjustment) THEN Zero
  ELSE LET x == DoubleSub(probability, adjustment)
       IN IF Less(One, x) THEN One ELSE x

\* analyzeSymbol's test before executeTrade: no position for the pair.
NoPositionFor(active, symbol, direction) == TradeId(symbol, direction, 0) \notin DOMAIN active

\* analyzeSymbol without the test of stats.isPaused.
EmitsSignalWhilePaused(paused, history, probability, adjustment) ==
  /\ Len(PushHistory(history, 0)) >= MIN_HISTORY
  /\ ~Less(AdjustedProbability(ToDouble(probability), adjustment), ToDouble(MIN_PROBABILITY))

\* handleTick calls analyzeSymbol and analyzeSymbol hands a signal to the signal
\* handlers.
EmitsSignal(paused, history, probability, adjustment) ==
  /\ Len(PushHistory(history, 0)) >= MIN_HISTORY
  /\ ~paused
  /\ ~Less(AdjustedProbability(ToDouble(probability), adjustment), ToDouble(MIN_PROBABILITY))

\* analyzeSymbol decides to call executeTrade(signal).
ShouldExecute(symbol, probability, direction) ==
  /\ EmitsSignal(isPaused, priceHistory[symbol], probability, symbolAdjustments[symbol])
  /\ NoPositionFor(activeTrades, symbol, direction)

\* wins / totalTrades: the quotient of two counts, 0 when there are no trades.
Quotient(n, d) == IF d = 0 THEN [num |-> 0, den |-> 1] ELSE [num |-> n, den |-> d]
SameQuotient(a, b) == a.num * b.den = b.num * a.den

\* { ...this.stats }: what updateStats hands to the stats handlers and getStats
\* returns.
Snapshot(total, won, lost, rate, count, paused) ==
  [totalTrades |-> total, wins |-> won, losses |-> lost, winRate |-> rate,
   activeTradesCount |-> count, isPaused |-> paused]

\* getStats()
GetStats == Snapshot(totalTrades, wins, losses, winRate, activeTradesCount, isPaused)

\* The positions updateActiveTrades(tick) changes and hands to the trade handlers.
OpenOn(ps, active, symbol) ==
  {k \in DOMAIN ps : /\ \E id \in DOMAIN active : active[id] = k
                     /\ ps[k].symbol = symbol
                     /\ ps[k].status = "open"}

\* A tick message: handleMessage -> handleTick -> updateActiveTrades, analyzeSymbol
\* -> executeTrade up to `await derivWS.buyContract`.  The tick arrives gap ms after
\* the task before it; probability and direction are what calculateTradeProbability
\* makes of the history.
HandleTick(gap, symbol, quote, probability, direction) ==
  /\ ~ContinuationRunnable
  /\ ticks < MaxTicks
  /\ \A c \in Unsettled : now + gap <= Deadline(calls[c])
  /\ now' = now + gap
  /\ \A k \in DOMAIN pauseTimers : now + gap <= pauseTimers[k]
  /\ ticks' = ticks + 1
  /\ signals' = signals + (IF isRunning /\ EmitsSignal(isPaused, priceHistory[symbol], probability,
                                                       symbolAdjustments[symbol])
                          THEN 1 ELSE 0)
  /\ IF ~isRunning
     THEN UNCHANGED <<wsVars, priceHistory, positions, activeTrades, activeTradesCount,
                      notified>>
     ELSE /\ priceHistory' = [priceHistory EXCEPT ![symbol] = PushHistory(@, quote)]
          /\ notified' = OpenOn(positions, activeTrades, symbol)
          /\ activeTradesCount' = Cardinality(DOMAIN activeTrades)
          /\ IF ShouldExecute(symbol, probability, direction)
             THEN LET id == TradeId(symbol, direction, now')
                      k == Len(positions) + 1
                      c == Len(calls) + 1
                      trade == [id |-> id, symbol |-> symbol, direction |-> direction,
                                entryPrice |-> 0, currentPrice |-> 0, profit |-> 0,
                                status |-> "pending", openTime |-> now',
                                result |-> "none", call |-> c, awaiting |-> TRUE]
                  IN /\ Len(positions) < MaxPositions
                     /\ Len(calls) < MaxCalls
                     /\ positions' = Append(UpdateActiveTrades(positions, activeTrades,
                                                               symbol, quote), trade)
                     /\ activeTrades' = MapSet(activeTrades, id, k)
                     /\ calls' = Append(calls, [NewCall("buy", "engine") EXCEPT !.reqId = now'])
                     /\ messageHandlers' = OnMessage(messageHandlers, "buy", c)
                     /\ venue' = Send(venue, readyState, c)
                     /\ UNCHANGED <<readyState, connVars>>
             ELSE /\ positions' = UpdateActiveTrades(positions, activeTrades, symbol, quote)
                  /\ UNCHANGED <<wsVars, activeTrades>>
  /\ UNCHANGED <<queueVars, isRunning, isPaused, symbolAdjustments, calibVars, indicatorVars,
                 tradeJournal, losses, winRate>>

\* TradingEngine.executeTrade after `await derivWS.buyContract` has settled.
EngineExecuteResume(k) ==
  /\ positions[k].awaiting
  /\ calls[positions[k].call].result.settled
  /\ LET result == calls[positions[k].call].result
     IN IF result.success
        THEN /\ positions' = [positions EXCEPT ![k].awaiting = FALSE,
                                               ![k].status = "open",
                                               ![k].entryPrice = Last(priceHistory[positions[k].symbol])]
             /\ UNCHANGED activeTrades
        ELSE /\ positions' = [positions EXCEPT ![k].awaiting = FALSE, ![k].status = "closed"]
             /\ activeTrades' = MapDelete(activeTrades, positions[k].id)
  /\ notified' = {}
  /\ activeTradesCount' = Cardinality(DOMAIN activeTrades')
  /\ UNCHANGED <<now, wsVars, queueVars, isRunning, isPaused, priceHistory,
                 symbolAdjustments, ticks, signals, calibVars, indicatorVars,
                 tradeJournal, losses, winRate>>

\* closeTrade's test of the performance floor without the minimum trade count.
BelowFloorAtAnyCount(total, won) == won * 100 < WIN_RATE_FLOOR * total

\* closeTrade's test of the performance floor:
\* totalTrades >= 10 && wins / totalTrades < WIN_RATE_FLOOR.  The quotient of two
\* counts below 2^26 is further than one ulp from 0.65 unless it is 13/20, whose
\* double is the literal's, so the test on doubles is the test on the fractions.
PerformanceFloorBreached(total, won) ==
  /\ total >= MIN_TRADE_COUNT
  /\ won * 100 < WIN_RATE_FLOOR * total

\* a closeTrade that counts a trade it does not find
ReturnUnknownCounted ==
  /\ totalTrades' = totalTrades + 1
  /\ UNCHANGED <<positions, activeTrades, wins, symbolAdjustments, lossRun, isPaused,
                 pauseTimers, pausedAt, observerVars>>

\* closeTrade's `if (!trade) return`
ReturnUnknown ==
  UNCHANGED <<positions, activeTrades, totalTrades, wins, symbolAdjustments, lossRun,
              isPaused, pauseTimers, pausedAt, observerVars>>

\* closeTrade(tradeId, result, profit), pauseForCalibration included.
CloseTrade(id, result, profit) ==
  /\ ~ContinuationRunnable
  /\ closes < MaxCloses
  /\ closes' = closes + 1
  /\ IF id \notin DOMAIN activeTrades
     THEN ReturnUnknown
     ELSE LET k == activeTrades[id]
              symbol == positions[k].symbol
              total == totalTrades + 1
              won == wins + (IF result = "win" THEN 1 ELSE 0)
              lost == losses + (IF result = "win" THEN 0 ELSE 1)
          IN /\ positions' = [positions EXCEPT ![k].status = "closed",
                                               ![k].result = result,
                                               ![k].profit = profit]
             /\ tradeJournal' = Append(tradeJournal, k)
             /\ activeTrades' = MapDelete(activeTrades, id)
             /\ totalTrades' = total
             /\ wins' = won
             /\ losses' = lost
             /\ winRate' = Quotient(won, total)
             /\ notified' = {}
             /\ activeTradesCount' = Cardinality(DOMAIN activeTrades')
             /\ IF PerformanceFloorBreached(total, won)
                THEN /\ isPaused' = TRUE
                     /\ symbolAdjustments' = [s \in Symbols |-> Zero]
                     /\ lossRun' = [s \in Symbols |-> 0]
                     /\ pauseTimers' = Append(pauseTimers, now + CALIBRATION_PAUSE_MS)
                     /\ pausedAt' = now
                ELSE /\ IF result = "win"
                        THEN UNCHANGED <<symbolAdjustments, lossRun>>
                        ELSE /\ symbolAdjustments' =
                                  [symbolAdjustments EXCEPT
                                     ![symbol] = DoubleAdd(@, ADJUSTMENT_STEP)]
                             /\ lossRun' = [lossRun EXCEPT ![symbol] = @ + 1]
                     /\ UNCHANGED <<isPaused, pauseTimers, pausedAt>>
  /\ UNCHANGED <<now, wsVars, queueVars, isRunning, priceHistory, ticks, signals,
                 indicatorVars>>

\* The callback of pauseForCalibration's setTimeout.
PauseTimer ==
  /\ ~ContinuationRunnable
  /\ pauseTimers # <<>>
  /\ Head(pauseTimers) <= now
  /\ pauseTimers' = Tail(pauseTimers)
  /\ isPaused' = FALSE
  /\ notified' = {}
  /\ activeTradesCount' = Cardinality(DOMAIN activeTrades)
  /\ UNCHANGED <<now, wsVars, queueVars, isRunning, priceHistory, symbolAdjustments,
                 positions, activeTrades, ticks, signals, totalTrades, wins, pausedAt,
                 lossRun, closes, indicatorVars, tradeJournal, losses, winRate>>

\* start()
Start ==
  /\ ~ContinuationRunnable
  /\ apiCalls < MaxApiCalls
  /\ apiCalls' = apiCalls + 1
  /\ IF isRunning
     THEN UNCHANGED <<isRunning, subscriptions, tickSubs, tickHandlers>>
     ELSE LET r == SubscribeAll(1, subscriptions, tickSubs, readyState)
          IN /\ isRunning' = TRUE
             /\ subscriptions' = r.subscriptions
             /\ tickSubs' = r.tickSubs
             /\ tickHandlers' = tickHandlers + 1
  /\ UNCHANGED <<now, readyState, calls, messageHandlers, venue, status, reconnectAttempts,
                 reconnectAt, pingAt, contractHandlers, contractSubs,
                 contractSubscriptions, account, acks, authPending, awaitingPong,
                 heartbeatFailed, opens, pings, queueVars, engineRest>>

\* stop()
Stop ==
  /\ ~ContinuationRunnable
  /\ apiCalls < MaxApiCalls
  /\ apiCalls' = apiCalls + 1
  /\ IF ~isRunning
     THEN UNCHANGED <<isRunning, subscriptions, tickSubs>>
     ELSE LET r == UnsubscribeAll(1, subscriptions, tickSubs, readyState)
          IN /\ isRunning' = FALSE
             /\ subscriptions' = r.subscriptions
             /\ tickSubs' = r.tickSubs
  /\ UNCHANGED <<now, readyState, calls, messageHandlers, venue, status, reconnectAttempts,
                 reconnectAt, pingAt, tickHandlers, contractHandlers, contractSubs,
                 contractSubscriptions, account, acks, authPending, awaitingPong,
                 heartbeatFailed, opens, pings, queueVars, engineRest>>

\* ================================================================ time
\* The instants at which a timer is due or a time comparison of the code changes
\* its outcome: the deadlines of the calls not yet settled, the end of the
\* throttle window, the end of the minimum interval, the ends of the cooldowns,
\* the reconnection timer.
Instants ==
  {Deadline(calls[c]) : c \in Unsettled}
    \cup {throttleEndsAt}
    \cup (IF lastExecutionTime # 0 THEN {lastExecutionTime + MIN_EXECUTION_INTERVAL_MS} ELSE {})
    \cup {symbolCooldowns[s] : s \in Symbols}
    \cup {reconnectAt}
    \cup Range(pauseTimers)

\* The next iteration of processLoop would do something: processLoop sleeps
\* 100 ms between iterations, much less than the distance of two instants.
PollDue ==
  /\ pc = "sleep"
  /\ ~isProcessing
  /\ Len(queue) # 0
  /\ ~(isThrottled /\ now < throttleEndsAt)
  /\ (isThrottled \/ ~(lastExecutionTime # 0
                        /\ now - lastExecutionTime < MIN_EXECUTION_INTERVAL_MS))

\* Time passes between two tasks: Date.now() is next read at a later instant,
\* never past a timer that is due (the timeout of a call, the sleep of processLoop).
Advance(t) ==
  /\ ~ContinuationRunnable
  /\ ~FailedSocket
  /\ ~PollDue
  /\ t \in Instants
  /\ t > now
  /\ \A c \in Unsettled : t <= Deadline(calls[c])
  /\ reconnectAt # 0 => t <= reconnectAt
  /\ \A k \in DOMAIN pauseTimers : t <= pauseTimers[k]
  /\ now' = t
  /\ UNCHANGED wsVars

\* Time passes where the heartbeat is followed: never past the setInterval of
\* startPing either.  (Ping changes nothing that another action reads, so where
\* no claim is about the heartbeat it is left out and Advance is used.)
AdvanceBeat(t) ==
  /\ ~ContinuationRunnable
  /\ ~FailedSocket
  /\ ~PollDue
  /\ t \in Instants \cup {pingAt}
  /\ t > now
  /\ \A c \in Unsettled : t <= Deadline(calls[c])
  /\ reconnectAt # 0 => t <= reconnectAt
  /\ pingAt # 0 => t <= pingAt
  /\ now' = t
  /\ UNCHANGED wsVars

\* calculateAllIndicators has not been called.
NotCalculated == [calculated |-> FALSE]
NoIndicators ==
  /\ prices = <<>>
  /\ period = 0
  /\ indicators = NotCalculated

\* The statistics and the calibration of a new TradingEngine.
FreshStats ==
  /\ signals = 0
  /\ totalTrades = 0
  /\ wins = 0
  /\ pauseTimers = <<>>
  /\ pausedAt = 0
  /\ lossRun = [s \in Symbols |-> 0]
  /\ closes = 0
  /\ tradeJournal = <<>>
  /\ losses = 0
  /\ winRate = Quotient(0, 0)
  /\ activeTradesCount = 0
  /\ notified = {}

\* =================================================== specifications
\* The connection once the socket has opened and the venue has authorized it,
\* before or after start().  The heartbeat is not followed.
Authorized(running) ==
  /\ status = "authorized"
  /\ reconnectAttempts = 0
  /\ reconnectAt = 0
  /\ pingAt = 0
  /\ subscriptions = (IF running THEN Symbols ELSE {})
  /\ tickSubs = [s \in Symbols |-> IF running THEN 1 ELSE 0]
  /\ tickHandlers = (IF running THEN 1 ELSE 0)
  /\ contractHandlers = {}
  /\ contractSubs = {}
  /\ contractSubscriptions = {}
  /\ account = StoreAccount([accountCurrency |-> "USD", accountInfo |-> NoAccount], "")
  /\ acks = 1
  /\ authPending = FALSE
  /\ awaitingPong = FALSE
  /\ heartbeatFailed = FALSE
  /\ opens = 1
  /\ pings = 0
  /\ apiCalls = 0

\* The connection, the queue and the engine once the socket has opened, before
\* any order is made.
Constructed ==
  /\ now = 1000
  /\ readyState = "OPEN"
  /\ calls = <<>>
  /\ messageHandlers = <<>>
  /\ venue = {}
  /\ Authorized(FALSE)
  /\ trades = <<>>
  /\ queue = <<>>
  /\ pendingSymbols = {}
  /\ symbolCooldowns = [s \in Symbols |-> 0]
  /\ isProcessing = FALSE
  /\ isThrottled = FALSE
  /\ throttleEndsAt = 0
  /\ lastExecutionTime = 0
  /\ pc = "sleep"
  /\ current = NoTrade
  /\ buyCall = 0
  /\ flushCount = -1
  /\ isRunning = FALSE
  /\ isPaused = FALSE
  /\ priceHistory = [s \in Symbols |-> <<>>]
  /\ symbolAdjustments = [s \in Symbols |-> Zero]
  /\ FreshStats
  /\ positions = <<>>
  /\ activeTrades = <<>>
  /\ ticks = 0

\* The state once the socket has opened, before any order is made.
Init ==
  /\ Constructed
  /\ NoIndicators

\* The trade queue draining through the venue connection.
NextQueue ==
  \/ \E s \in Symbols, p \in Priorities : AddTrade(s, p)
  \/ ProcessLoopIteration
  \/ ExecuteTradeResume
  \/ ProcessLoopFinally
  \/ ClearQueue
  \/ \E c \in DOMAIN calls : \E ok \in BOOLEAN, err \in VenueErrors :
       VenueRespond(c, ok, err) /\ UNCHANGED <<queueVars, engineVars>>
  \/ \E c \in DOMAIN calls : CallTimeout(c) /\ UNCHANGED <<queueVars, engineVars>>
  \/ \E t \in Instants : Advance(t) /\ UNCHANGED <<queueVars, engineVars>>

SpecQueue == Init /\ [][NextQueue]_vars

\* buyContract and sellContract called directly, several calls at a time.
NextCalls ==
  \/ BuyContract("engine") /\ UNCHANGED <<queueVars, engineVars>>
  \/ SellContract("ui") /\ UNCHANGED <<queueVars, engineVars>>
  \/ \E c \in DOMAIN calls : \E ok \in BOOLEAN, err \in VenueErrors :
       VenueRespond(c, ok, err) /\ UNCHANGED <<queueVars, engineVars>>
  \/ \E c \in DOMAIN calls : CallTimeout(c) /\ UNCHANGED <<queueVars, engineVars>>
  \/ \E t \in Instants : Advance(t) /\ UNCHANGED <<queueVars, engineVars>>

SpecCalls == Init /\ [][NextCalls]_vars

\* The engine after start(), with 0 or MIN_HISTORY - 1 quotes of history.
Started ==
  /\ now = 1000
  /\ readyState = "OPEN"
  /\ calls = <<>>
  /\ messageHandlers = <<>>
  /\ venue = {}
  /\ Authorized(TRUE)
  /\ trades = <<>>
  /\ queue = <<>>
  /\ pendingSymbols = {}
  /\ symbolCooldowns = [s \in Symbols |-> 0]
  /\ isProcessing = FALSE
  /\ isThrottled = FALSE
  /\ throttleEndsAt = 0
  /\ lastExecutionTime = 0
  /\ pc = "sleep"
  /\ current = NoTrade
  /\ buyCall = 0
  /\ flushCount = -1
  /\ isRunning = TRUE
  /\ isPaused = FALSE
  /\ symbolAdjustments = [s \in Symbols |-> Zero]
  /\ FreshStats
  /\ NoIndicators
  /\ positions = <<>>
  /\ activeTrades = <<>>
  /\ ticks = 0

InitEngine ==
  /\ Started
  /\ priceHistory \in [Symbols -> {<<>>, [i \in 1..(MIN_HISTORY - 1) |-> 100]}]

\* The signal engine on a tick stream, placing orders at the venue.
NextEngine ==
  \/ \E gap \in TickGaps, s \in Symbols, q \in Quotes, p \in Probabilities, d \in Directions :
       HandleTick(gap, s, q, p, d)
  \/ \E k \in DOMAIN positions : EngineExecuteResume(k)
  \/ \E c \in DOMAIN calls : \E ok \in BOOLEAN, err \in VenueErrors :
       VenueRespond(c, ok, err) /\ UNCHANGED <<queueVars, engineVars>>
  \/ \E c \in DOMAIN calls : CallTimeout(c) /\ UNCHANGED <<queueVars, engineVars>>
  \/ \E t \in Instants : Advance(t) /\ UNCHANGED <<queueVars, engineVars>>

SpecEngine == InitEngine /\ [][NextEngine]_vars


\* The trade queue with the scheduling the runtime guarantees: the sleep timer of
\* processLoop and the timeout of every call fire, runnable continuations run,
\* and Date.now() moves on.
SpecQueueFair ==
  /\ Init
  /\ [][NextQueue]_vars
  /\ WF_vars(ProcessLoopIteration)
  /\ WF_vars(ExecuteTradeResume)
  /\ WF_vars(ProcessLoopFinally)
  /\ WF_vars(\E c \in DOMAIN calls : CallTimeout(c) /\ UNCHANGED <<queueVars, engineVars>>)
  /\ WF_vars(\E t \in Instants : Advance(t) /\ UNCHANGED <<queueVars, engineVars>>)

\* ============================================================ claims
\* A step that is a call of addTrade, and the call it makes.
IsAddTrade == Len(trades') = Len(trades) + 1
Added == trades'[Len(trades')]

\* An intent for the symbol has been admitted and is not yet resolved.
Outstanding(symbol) ==
  \E t \in DOMAIN trades :
    /\ trades[t].symbol = symbol
    /\ trades[t].status \in {"pending", "executing"}
    /\ ~trades[t].result.settled

\* The step in which executeTrade resumes with the result of the venue call.
IsExecutionEnd == pc = "awaitBuy" /\ pc' = "finally"

\* The step in which processLoop takes a trade off the queue.
IsPop == pc = "sleep" /\ pc' = "awaitBuy"

\* C1: while an intent for an instrument is admitted and unresolved (queued or
\* executing), every further addTrade for it resolves at once with the debounce
\* failure and is not enqueued; the queue never holds two intents for one
\* instrument.
C1_Debounce ==
  [][/\ (IsAddTrade /\ Outstanding(Added.symbol)) =>
          /\ Added.result = Failure(DebounceError)
          /\ Added.resolveCalls = 1
          /\ queue' = queue
     /\ \A i, j \in DOMAIN queue' : i # j => queue'[i].symbol # queue'[j].symbol]_vars

C1_Witness ==
  \E t \in DOMAIN trades : trades[t].result = Failure(DebounceError)

\* C2: every buy order reaches the venue through the trade queue, and at most one
\* order submission is in flight at the venue at any time.
C2_OrdersThroughQueue ==
  /\ \A c \in DOMAIN calls : calls[c].kind = "buy" => calls[c].caller = "queue"
  /\ Cardinality({c \in Unsettled : calls[c].kind = "buy"}) <= 1

\* C3: the active set holds at most one position that is not closed (pending or
\* open) per instrument and direction.
C3_OnePositionPerPair ==
  \A s \in Symbols, d \in Directions :
    Cardinality({id \in DOMAIN activeTrades :
                   /\ id.symbol = s
                   /\ id.direction = d
                   /\ positions[activeTrades[id]].status \in {"pending", "open"}}) <= 1

\* C4: a call of buyContract or sellContract is resolved only by the response to
\* its own request (or by its timeout).
C4_OwnResponseOnly ==
  \A c \in DOMAIN calls : calls[c].answeredBy \in {0, c}

\* C5: the registered 'buy' and 'sell' handlers are exactly the handlers of the
\* calls not yet resolved.
C5_HandlersOfUnresolvedCalls ==
  /\ Range(Get(messageHandlers, Key("buy", 0))) \cup Range(Get(messageHandlers, Key("sell", 0)))
       = Unsettled
  /\ Len(Get(messageHandlers, Key("buy", 0))) + Len(Get(messageHandlers, Key("sell", 0)))
       = Cardinality(Unsettled)

\* C6: after every execution attempt the instrument of the intent is in cooldown
\* until the completion time plus the cooldown duration.
C6_CooldownAfterEveryAttempt ==
  pc = "finally" =>
    symbolCooldowns[current.symbol] = lastExecutionTime + COOLDOWN_PER_ASSET_MS

\* C7: an addTrade for an instrument before the end of its cooldown is rejected
\* with the cooldown failure and not enqueued; at or after the end, with no
\* intent pending for the instrument, it is admitted.
C7_CooldownWindow ==
  [][IsAddTrade =>
       LET cooldownEnd == symbolCooldowns[Added.symbol]
       IN /\ (cooldownEnd # 0 /\ now < cooldownEnd) =>
               /\ Added.result = Failure(CooldownError)
               /\ queue' = queue
          /\ (cooldownEnd # 0 /\ now >= cooldownEnd /\ ~Outstanding(Added.symbol)) =>
               /\ Added.status = "pending"
               /\ Len(queue') = Len(queue) + 1]_vars

\* C8: when the venue result of the executing intent is a rate-limit error, every
\* queued intent is removed, cancelled and resolved as failed, the queue is empty
\* and throttled for the backoff window, the notified count is the queue depth
\* before the flush, and the executing intent fails with the venue's error.
C8_RateLimitFlush ==
  [][(IsExecutionEnd /\ calls[buyCall].result = Failure("Rate limit reached")) =>
       /\ queue' = <<>>
       /\ \A i \in DOMAIN queue :
            /\ trades'[queue[i].id].status = "cancelled"
            /\ trades'[queue[i].id].result = Failure(RateLimitCancelError)
            /\ trades'[queue[i].id].resolveCalls = 1
       /\ isThrottled'
       /\ throttleEndsAt' = now + RATE_LIMIT_BACKOFF_MS
       /\ flushCount' = Len(queue)
       /\ trades'[current.id].status = "failed"
       /\ trades'[current.id].result = calls[buyCall].result]_vars

C8_Witness ==
  /\ flushCount >= 1
  /\ isThrottled
  /\ \E t \in DOMAIN trades : trades[t].status = "cancelled"

\* C9: every addTrade call is resolved, exactly once: no call stays pending
\* forever and none is resolved twice.
C9_EveryTradeResolvedOnce ==
  /\ [](\A t \in DOMAIN trades : trades[t].resolveCalls <= 1)
  /\ \A t \in 1..MaxTrades :
       (t \in DOMAIN trades) ~> (t \in DOMAIN trades /\ trades[t].result.settled
                                  /\ trades[t].resolveCalls = 1)

C9_Witness ==
  /\ \E t \in DOMAIN trades : trades[t].status = "cancelled" /\ trades[t].resolveCalls = 1
  /\ \E t \in DOMAIN trades : trades[t].result = Failure(BuyTimeoutError)

\* The queue order: descending priority, then ascending enqueue time.
InOrder(q) ==
  \A i, j \in DOMAIN q :
    i < j => \/ q[i].priority > q[j].priority
             \/ q[i].priority = q[j].priority /\ q[i].addedAt <= q[j].addedAt

InitConn ==
  /\ now = 1000
  /\ readyState = "CONNECTING"
  /\ calls = <<>>
  /\ messageHandlers = <<>>
  /\ venue = {}
  /\ status = "connecting"
  /\ reconnectAttempts = 0
  /\ reconnectAt = 0
  /\ pingAt = 0
  /\ subscriptions = {}
  /\ tickSubs = NoTickSubs
  /\ tickHandlers = 0
  /\ contractHandlers = {}
  /\ contractSubs = {}
  /\ contractSubscriptions = {}
  /\ account = [accountCurrency |-> "USD", accountInfo |-> NoAccount]
  /\ acks = 0
  /\ authPending = FALSE
  /\ awaitingPong = FALSE
  /\ heartbeatFailed = FALSE
  /\ opens = 0
  /\ pings = 0
  /\ apiCalls = 0
  /\ trades = <<>>
  /\ queue = <<>>
  /\ pendingSymbols = {}
  /\ symbolCooldowns = [s \in Symbols |-> 0]
  /\ isProcessing = FALSE
  /\ isThrottled = FALSE
  /\ throttleEndsAt = 0
  /\ lastExecutionTime = 0
  /\ pc = "sleep"
  /\ current = NoTrade
  /\ buyCall = 0
  /\ flushCount = -1
  /\ isRunning = FALSE
  /\ isPaused = FALSE
  /\ priceHistory = [s \in Symbols |-> <<>>]
  /\ symbolAdjustments = [s \in Symbols |-> Zero]
  /\ FreshStats
  /\ NoIndicators
  /\ positions = <<>>
  /\ activeTrades = <<>>
  /\ ticks = 0

\* The tick subscriptions of the engine on a connection that opens, is
\* authorized, drops and reconnects.
NextTicks ==
  \/ SocketOpen /\ UNCHANGED <<queueVars, engineVars>>
  \/ SocketClose /\ UNCHANGED <<queueVars, engineVars>>
  \/ ReconnectTimer /\ UNCHANGED <<queueVars, engineVars>>
  \/ \E ok \in BOOLEAN, currency \in Currencies :
       AuthorizeResponse(ok, currency) /\ UNCHANGED <<queueVars, engineVars>>
  \/ Start
  \/ Stop
  \/ \E t \in Instants : Advance(t) /\ UNCHANGED <<queueVars, engineVars>>

SpecTicks == InitConn /\ [][NextTicks]_vars

\* The contract subscriptions on such a connection.
NextContracts ==
  \/ SocketOpen /\ UNCHANGED <<queueVars, engineVars>>
  \/ SocketClose /\ UNCHANGED <<queueVars, engineVars>>
  \/ ReconnectTimer /\ UNCHANGED <<queueVars, engineVars>>
  \/ \E ok \in BOOLEAN, currency \in Currencies :
       AuthorizeResponse(ok, currency) /\ UNCHANGED <<queueVars, engineVars>>
  \/ \E cid \in ContractIds : SubscribeOpenContract(cid) /\ UNCHANGED <<queueVars, engineVars>>
  \/ \E cid \in ContractIds : UnsubscribeOpenContract(cid) /\ UNCHANGED <<queueVars, engineVars>>
  \/ \E cid \in ContractIds : ContractUpdate(cid) /\ UNCHANGED <<queueVars, engineVars>>
  \/ \E t \in Instants : Advance(t) /\ UNCHANGED <<queueVars, engineVars>>

SpecContracts == InitConn /\ [][NextContracts]_vars

\* The sockets of the connection, its reconnection and its heartbeat.
NextSocket ==
  \/ SocketOpen /\ UNCHANGED <<queueVars, engineVars>>
  \/ SocketError /\ UNCHANGED <<queueVars, engineVars>>
  \/ SocketClose /\ UNCHANGED <<queueVars, engineVars>>
  \/ ReconnectTimer /\ UNCHANGED <<queueVars, engineVars>>
  \/ \E ok \in BOOLEAN, currency \in Currencies :
       AuthorizeResponse(ok, currency) /\ UNCHANGED <<queueVars, engineVars>>
  \/ Ping /\ UNCHANGED <<queueVars, engineVars>>
  \/ Pong /\ UNCHANGED <<queueVars, engineVars>>
  \/ \E t \in Instants \cup {pingAt} : AdvanceBeat(t) /\ UNCHANGED <<queueVars, engineVars>>

SpecSocket == InitConn /\ [][NextSocket]_vars

\* buyContract and sellContract on a connection that drops and tries to
\* reconnect.
NextCallsConn ==
  \/ NextCalls
  \/ SocketClose /\ UNCHANGED <<queueVars, engineVars>>
  \/ ReconnectTimer /\ UNCHANGED <<queueVars, engineVars>>

\* The timers of the runtime fire and Date.now() moves on.
SpecCallsConn ==
  /\ Init
  /\ [][NextCallsConn]_vars
  /\ WF_vars(\E c \in DOMAIN calls : CallTimeout(c) /\ UNCHANGED <<queueVars, engineVars>>)
  /\ WF_vars(ReconnectTimer /\ UNCHANGED <<queueVars, engineVars>>)
  /\ WF_vars(\E t \in Instants : Advance(t) /\ UNCHANGED <<queueVars, engineVars>>)


\* The step in which the venue's response to request c arrives.
IsResponseTo(c) == c \in venue /\ c \notin venue' /\ readyState' = readyState

\* C11: every buyContract / sellContract call is resolved, exactly once: with the
\* venue's result when the response to its request arrives before its timeout,
\* with the timeout failure when the 10 s timeout fires first; none stays
\* pending, whether the socket is open, not open, or drops meanwhile.
C11_CallsResolve ==
  /\ [][\A c \in DOMAIN calls :
          /\ calls[c].result.settled => calls'[c].result = calls[c].result
          /\ (IsResponseTo(c) /\ ~calls[c].result.settled) =>
                 /\ calls'[c].result.settled
                 /\ calls'[c].answeredBy = c
          /\ (~calls[c].result.settled /\ calls'[c].result.settled
                /\ calls'[c].answeredBy = 0) =>
                 /\ now >= Deadline(calls[c])
                 /\ calls'[c].result = Failure(IF calls[c].kind = "buy"
                                               THEN BuyTimeoutError ELSE SellTimeoutError)]_vars
  /\ [](\A c \in Unsettled : now <= Deadline(calls[c]))
  /\ \A c \in 1..MaxCalls :
       (c \in DOMAIN calls) ~> (c \in DOMAIN calls /\ calls[c].result.settled)


\* C12: on one socket no instrument has more than one tick-subscribe request
\* sent without a forget in between.
C12_NoDuplicateTickSubscription ==
  \A s \in Symbols : tickSubs[s] <= 1

\* C13: once a reconnection has reached the authorized state, the subscribe
\* request of every contract that has a registered handler has been sent on the
\* new socket.
C13_ContractsResubscribed ==
  (opens >= 2 /\ readyState = "OPEN" /\ status = "authorized") =>
    contractHandlers \subseteq contractSubs

\* C14: a step that receives an authorization acknowledgment stores the account
\* metadata, sets the status to authorized and sends one tick-subscribe request
\* for every instrument in the subscription set, none for the others.
C14_AuthorizeAcknowledged ==
  [][acks' = acks + 1 =>
       /\ account'.accountInfo.currency \in {"USD", "EUR"}
       /\ account'.accountInfo.balance = 50
       /\ account'.accountInfo.loginid = "CR1"
       /\ status' = "authorized"
       /\ \A s \in Symbols :
            tickSubs'[s] = tickSubs[s] + (IF s \in subscriptions THEN 1 ELSE 0)]_vars

\* The instruments were registered by start() while the first socket was not
\* open; the acknowledgment on it has sent their requests.
C14_Witness ==
  /\ acks = 1
  /\ opens = 1
  /\ apiCalls = 1
  /\ status = "authorized"
  /\ subscriptions = Symbols
  /\ \A s \in Symbols : tickSubs[s] = 1
  /\ account.accountInfo # NoAccount

\* The connection has given up.
GaveUp ==
  /\ readyState = "CLOSED"
  /\ status = "disconnected"
  /\ reconnectAt = 0
  /\ reconnectAttempts = MAX_RECONNECT_ATTEMPTS

\* C15: a reconnection is scheduled only while fewer than maxReconnectAttempts
\* attempts have been made since the last socket open, each one is counted, the
\* count is reset only by an open; after the last attempt has failed nothing is
\* scheduled and the connection stays disconnected.
C15_ReconnectionGivesUp ==
  [][/\ (reconnectAt = 0 /\ reconnectAt' # 0) =>
          /\ reconnectAttempts < MAX_RECONNECT_ATTEMPTS
          /\ reconnectAttempts' = reconnectAttempts + 1
     /\ reconnectAttempts' <= MAX_RECONNECT_ATTEMPTS
     /\ reconnectAttempts' < reconnectAttempts =>
          (readyState = "CONNECTING" /\ readyState' = "OPEN")
     /\ GaveUp => GaveUp']_vars

C15_Witness == GaveUp /\ opens >= 1

\* C16: once a heartbeat has failed (a ping came due with the ping before it
\* unanswered, or could not be sent) the connection is no longer connected or
\* authorized.
C16_HeartbeatFailureDisconnects ==
  heartbeatFailed => status \notin {"connected", "authorized"}


\* The adjustment after n losses: 0.02 added n times.
RECURSIVE Accumulate(_)
Accumulate(n) == IF n = 0 THEN Zero ELSE DoubleAdd(Accumulate(n - 1), ADJUSTMENT_STEP)

\* Statistics the engine has after closed trades none of which paused it: none
\* closed yet; 5 wins and 4 losses; 13 wins and 6 losses, the win rate never below
\* the floor from the tenth trade on.
CalibrationStarts ==
  {[totalTrades |-> 0, wins |-> 0, lossRun |-> [R_10 |-> 0, R_25 |-> 0]],
   [totalTrades |-> 9, wins |-> 5, lossRun |-> [R_10 |-> 3, R_25 |-> 1]],
   [totalTrades |-> 19, wins |-> 13, lossRun |-> [R_10 |-> 5, R_25 |-> 1]]}

\* The position executeTrade has opened on symbol at time t with buyContract call c.
OpenPosition(symbol, t, c) ==
  [id |-> TradeId(symbol, "LONG", t), symbol |-> symbol, direction |-> "LONG",
   entryPrice |-> 100, currentPrice |-> 0, profit |-> 0, status |-> "open",
   openTime |-> t, result |-> "none", call |-> c, awaiting |-> FALSE]

\* The buyContract call made at time t, answered by the venue with contract c.
FilledCall(t, c) ==
  [NewCall("buy", "engine") EXCEPT !.reqId = t, !.result = Success(c), !.answeredBy = c]

\* The running engine after a tick of R_10 at 2000 and a tick of R_25 at 3000 have
\* each opened a position that the venue has filled: MIN_HISTORY quotes of
\* history, two open positions.  The counts of ticks, signals and closeTrade
\* calls start here.
TwoOpenPositions ==
  /\ now = 3000
  /\ readyState = "OPEN"
  /\ calls = <<FilledCall(2000, 1), FilledCall(3000, 2)>>
  /\ messageHandlers = OnMessage(OnMessage(<<>>, "buy", 1), "buy", 2)
  /\ venue = {}
  /\ Authorized(TRUE)
  /\ trades = <<>>
  /\ queue = <<>>
  /\ pendingSymbols = {}
  /\ symbolCooldowns = [s \in Symbols |-> 0]
  /\ isProcessing = FALSE
  /\ isThrottled = FALSE
  /\ throttleEndsAt = 0
  /\ lastExecutionTime = 0
  /\ pc = "sleep"
  /\ current = NoTrade
  /\ buyCall = 0
  /\ flushCount = -1
  /\ isRunning = TRUE
  /\ priceHistory = [s \in Symbols |-> [i \in 1..MIN_HISTORY |-> 100]]
  /\ positions = <<OpenPosition("R_10", 2000, 1), OpenPosition("R_25", 3000, 2)>>
  /\ activeTrades = MapSet(MapSet(<<>>, TradeId("R_10", "LONG", 2000), 1),
                           TradeId("R_25", "LONG", 3000), 2)
  /\ ticks = 0
  /\ signals = 0
  /\ closes = 0
  /\ NoIndicators
  /\ activeTradesCount = 2
  /\ notified = {}

\* The statistics and the adjustments after the closed trades of st.
ClosedTrades(st) ==
  /\ totalTrades = st.totalTrades
  /\ wins = st.wins
  /\ lossRun = st.lossRun
  /\ symbolAdjustments = [s \in Symbols |-> Accumulate(st.lossRun[s])]
  /\ tradeJournal = [i \in 1..st.totalTrades |-> 0]
  /\ losses = st.totalTrades - st.wins
  /\ winRate = Quotient(st.wins, st.totalTrades)

InitCalibration ==
  /\ TwoOpenPositions
  /\ isPaused = FALSE
  /\ pauseTimers = <<>>
  /\ pausedAt = 0
  /\ \E st \in CalibrationStarts : ClosedTrades(st)

\* The ids of the positions the engine has made, closed ones included.
PositionIds == {positions[k].id : k \in DOMAIN positions}

\* The signal engine with closeTrade called on its positions, on positions
\* closed before and on an id it never made.
NextCalibration ==
  \/ \E gap \in TickGaps, s \in Symbols, p \in CalibrationProbabilities :
       HandleTick(gap, s, 103, p, "LONG")
  \/ \E k \in DOMAIN positions : EngineExecuteResume(k)
  \/ \E c \in DOMAIN calls : VenueRespond(c, TRUE, "") /\ UNCHANGED <<queueVars, engineVars>>
  \/ \E c \in DOMAIN calls : CallTimeout(c) /\ UNCHANGED <<queueVars, engineVars>>
  \/ \E id \in DOMAIN activeTrades \cup PositionIds \cup {TradeId("R_10", "LONG", 0)} :
       \/ CloseTrade(id, "win", 1)
       \/ CloseTrade(id, "loss", -1)
  \/ PauseTimer
  \/ \E t \in Instants : Advance(t) /\ UNCHANGED <<queueVars, engineVars>>

SpecCalibration == InitCalibration /\ [][NextCalibration]_vars


\* C17: from every run of pauseForCalibration at time T the engine is paused until
\* T + CALIBRATION_PAUSE_MS, and is not paused after that instant.
C17_PauseLastsConfiguredDuration ==
  /\ (pausedAt # 0 /\ now < pausedAt + CALIBRATION_PAUSE_MS) => isPaused
  /\ isPaused => (pausedAt # 0 /\ now <= pausedAt + CALIBRATION_PAUSE_MS)

\* A tick has been handled in this step.
IsTick == ticks' = ticks + 1

\* C18: a step taken while the engine is paused hands no signal to the signal
\* handlers and submits no order; a tick handled while it is paused still appends
\* its quote to the history of its instrument and sets the current price and the
\* P/L of the open positions of that instrument.
C18_PausedEngineIsSilent ==
  [][isPaused =>
       /\ signals' = signals
       /\ Len(calls') = Len(calls)
       /\ venue' \subseteq venue
       /\ Len(positions') = Len(positions)
       /\ IsTick =>
            \E s \in Symbols, q \in Quotes :
              /\ priceHistory' = [priceHistory EXCEPT ![s] = PushHistory(@, q)]
              /\ \A k \in DOMAIN positions :
                   ((\E id \in DOMAIN activeTrades : activeTrades[id] = k)
                      /\ positions[k].symbol = s /\ positions[k].status = "open") =>
                     /\ positions'[k].currentPrice = q
                     /\ positions'[k].profit = (q - positions[k].entryPrice) * 100]_vars

\* One second into a pause a tick has been handled: no signal, no order beyond the
\* two of the open positions, the P/L of an open position at the new quote.
C18_Witness ==
  /\ isPaused
  /\ now = pausedAt + 1000
  /\ ticks = 1
  /\ signals = 0
  /\ Len(calls) = 2
  /\ \E s \in Symbols : Len(priceHistory[s]) = MIN_HISTORY + 1
  /\ \E k \in DOMAIN positions :
       /\ positions[k].status = "open"
       /\ positions[k].currentPrice = 103
       /\ positions[k].profit = 300

\* pauseForCalibration has run in this step.
IsPauseTrigger == Len(pauseTimers') = Len(pauseTimers) + 1

\* C19: a closeTrade that records an outcome pauses the engine exactly when the
\* trade count it leaves is at least 10 and the win rate it leaves is below
\* WIN_RATE_FLOOR; otherwise it leaves the pause flag alone; no other step pauses.
C19_PauseExactlyBelowFloor ==
  [][/\ totalTrades' = totalTrades + 1 =>
          /\ IsPauseTrigger <=> (/\ totalTrades' >= MIN_TRADE_COUNT
                                 /\ wins' * 100 < WIN_RATE_FLOOR * totalTrades')
          /\ IsPauseTrigger => (isPaused' /\ pausedAt' = now)
          /\ ~IsPauseTrigger => isPaused' = isPaused
     /\ totalTrades' # totalTrades + 1 => (~IsPauseTrigger /\ (isPaused' => isPaused))]_vars

\* The twentieth trade left the win rate at the floor (13 of 20) and did not
\* pause; the twenty-first, a loss, left it below and paused.
C19_Witness ==
  /\ totalTrades = 21
  /\ wins = 13
  /\ closes = 2
  /\ isPaused
  /\ pausedAt = now
  /\ Len(pauseTimers) = 1

\* n * 0.02: the exact product, rounded once.
RECURSIVE ExactTimes(_)
ExactTimes(n) ==
  IF n = 0 THEN Zero
  ELSE LET x == ExactTimes(n - 1)
       IN Carry(x.hi + ADJUSTMENT_STEP.hi, x.lo + ADJUSTMENT_STEP.lo)

\* C20: the adjustment of an instrument is N * 0.02, N the losses recorded on it
\* since its adjustment was last zero.
C20_AdjustmentIsLossesTimesStep ==
  \A s \in Symbols : symbolAdjustments[s] = RoundToDouble(ExactTimes(lossRun[s]))


\* The intents whose status is 'executing'.
Executing == {t \in DOMAIN trades : trades[t].status = "executing"}

\* C28: at most one intent is executing; processLoop takes an intent off the
\* queue only when no venue call of the queue is unresolved and no intent is
\* executing, and it takes exactly one, the head of the queue.
C28_OneExecutionAtATime ==
  /\ [](Cardinality(Executing) <= 1)
  /\ [][IsPop =>
          /\ \A c \in Unsettled : calls[c].caller # "queue"
          /\ Executing = {}
          /\ queue' = Tail(queue)
          /\ current' = Head(queue)
          /\ Executing' = {Head(queue).id}]_vars

\* A second intent is queued while the venue call of the first is unresolved.
C28_Witness ==
  /\ pc = "awaitBuy"
  /\ ~calls[buyCall].result.settled
  /\ Executing = {current.id}
  /\ Len(queue) >= 1

\* C29: while the queue is throttled and the time is before throttleEndsAt,
\* processLoop takes no intent off the queue and sends nothing to the venue; the
\* intents admitted in the window stay queued until it has expired.
C29_NoExecutionWhileThrottled ==
  [][(isThrottled /\ now < throttleEndsAt) =>
       /\ ~IsPop
       /\ Len(calls') = Len(calls)
       /\ Executing' \subseteq Executing
       /\ \A i \in DOMAIN queue' : trades'[queue'[i].id].status = "pending"]_vars

\* The first intent ended with a rate-limit error; the second was admitted in
\* the window and is executing after it.
C29_Witness ==
  /\ pc = "awaitBuy"
  /\ Len(trades) >= 2
  /\ trades[1].status = "failed"
  /\ IsRateLimitError(trades[1].result.error)
  /\ current.id = 2
  /\ current.addedAt >= lastExecutionTime
  /\ current.addedAt < lastExecutionTime + RATE_LIMIT_BACKOFF_MS
  /\ now >= lastExecutionTime + RATE_LIMIT_BACKOFF_MS

\* C30: processLoop takes an intent off the queue no earlier than
\* MIN_EXECUTION_INTERVAL_MS after the previous execution has completed.
C30_MinimumExecutionInterval ==
  [][IsPop =>
       (lastExecutionTime = 0 \/ now - lastExecutionTime >= MIN_EXECUTION_INTERVAL_MS)]_vars

\* The second execution starts exactly the minimum interval after the first
\* ended.
C30_Witness ==
  /\ pc = "awaitBuy"
  /\ lastExecutionTime # 0
  /\ now = lastExecutionTime + MIN_EXECUTION_INTERVAL_MS
  /\ ~calls[buyCall].result.settled
  /\ \E t \in DOMAIN trades : trades[t].status \in {"completed", "failed"}

\* =================================================== indicators
\* Numbers are counted in thousandths; a division keeps the whole thousandths.
Scale == 1000
SignalPeriod == 2

\* number | null: a function that returns null returns no number at all.
Null == <<>>
Number(v) == <<v>>

Abs(x) == IF x < 0 THEN -x ELSE x
Max3(a, b, c) == IF a >= b /\ a >= c THEN a ELSE IF b >= c THEN b ELSE c

\* Math.sqrt, to the whole thousandth below.
Sqrt(n) == CHOOSE r \in 0..n : r * r <= n /\ (r + 1) * (r + 1) > n

\* data.reduce((sum, val) => sum + val, 0)
RECURSIVE Sum(_)
Sum(data) == IF data = <<>> THEN 0 ELSE Head(data) + Sum(Tail(data))

\* data.slice(0, n) and data.slice(-n), for n <= data.length.
FirstOf(data, n) == SubSeq(data, 1, n)
LastOf(data, n) == SubSeq(data, Len(data) - n + 1, Len(data))

\* A moving average that answers for whatever data there is.
SMAOfWhatThereIs(data, n) ==
  IF data = <<>> THEN Number(0) ELSE Number(Sum(data) \div Len(data))

calculateSMA(data, n) ==
  IF Len(data) < n
    THEN Null
    ELSE Number(Sum(LastOf(data, n)) \div n)

\* for (let i = period; i < data.length; i++) ema = (data[i] - ema) * multiplier + ema
RECURSIVE ExponentialSmoothing(_, _, _, _)
ExponentialSmoothing(ema, data, i, n) ==
  IF i > Len(data)
    THEN ema
    ELSE ExponentialSmoothing(((data[i] - ema) * 2) \div (n + 1) + ema, data, i + 1, n)

calculateEMA(data, n) ==
  IF Len(data) < n
    THEN Null
    ELSE Number(ExponentialSmoothing(Sum(FirstOf(data, n)) \div n, data, n + 1, n))

\* for (let i = period; i < values.length; i++) avg = (avg * (period - 1) + values[i]) / period
RECURSIVE WilderSmoothing(_, _, _, _)
WilderSmoothing(avg, values, i, n) ==
  IF i > Len(values)
    THEN avg
    ELSE WilderSmoothing((avg * (n - 1) + values[i]) \div n, values, i + 1, n)

Changes(data) == [i \in 1..(Len(data) - 1) |-> data[i + 1] - data[i]]

calculateRSI(data, n) ==
  IF Len(data) < n + 1
    THEN Null
    ELSE LET changes == Changes(data)
             gains == [i \in DOMAIN changes |-> IF changes[i] > 0 THEN changes[i] ELSE 0]
             drops == [i \in DOMAIN changes |-> IF changes[i] > 0 THEN 0 ELSE Abs(changes[i])]
             avgGain == WilderSmoothing(Sum(FirstOf(gains, n)) \div n, gains, n + 1, n)
             avgLoss == WilderSmoothing(Sum(FirstOf(drops, n)) \div n, drops, n + 1, n)
         IN  IF avgLoss = 0
               THEN Number(100 * Scale)
               ELSE Number(100 * Scale - (100 * Scale * avgLoss) \div (avgGain + avgLoss))

TrueRanges(highs, lows, closings) ==
  [i \in 1..(Len(highs) - 1) |->
     Max3(highs[i + 1] - lows[i + 1],
          Abs(highs[i + 1] - closings[i]),
          Abs(lows[i + 1] - closings[i]))]

PlusDM(highs, lows) ==
  [i \in 1..(Len(highs) - 1) |->
     LET highDiff == highs[i + 1] - highs[i]
         lowDiff == lows[i] - lows[i + 1]
     IN  IF highDiff > lowDiff /\ highDiff > 0 THEN highDiff ELSE 0]

MinusDM(highs, lows) ==
  [i \in 1..(Len(highs) - 1) |->
     LET highDiff == highs[i + 1] - highs[i]
         lowDiff == lows[i] - lows[i + 1]
     IN  IF lowDiff > highDiff /\ lowDiff > 0 THEN lowDiff ELSE 0]

\* The loop that collects dx: a step whose diSum is not above zero (a zero
\* sum, or the NaN of a zero smoothedTR) pushes nothing.
RECURSIVE DirectionalMovement(_, _, _, _, _, _, _, _, _)
DirectionalMovement(dx, i, smoothedTR, smoothedPlusDM, smoothedMinusDM, trueRanges, plusDM, minusDM, n) ==
  IF i > Len(trueRanges)
    THEN dx
    ELSE LET tr == smoothedTR - (smoothedTR \div n) + trueRanges[i]
             plus == smoothedPlusDM - (smoothedPlusDM \div n) + plusDM[i]
             minus == smoothedMinusDM - (smoothedMinusDM \div n) + minusDM[i]
             next == IF tr > 0 /\ plus + minus > 0
                       THEN Append(dx, (Abs(plus - minus) * 100 * Scale) \div (plus + minus))
                       ELSE dx
         IN  DirectionalMovement(next, i + 1, tr, plus, minus,
                                 trueRanges, plusDM, minusDM, n)

calculateADX(highs, lows, closings, n) ==
  IF Len(highs) < n * 2
    THEN Null
    ELSE LET trueRanges == TrueRanges(highs, lows, closings)
             plusDM == PlusDM(highs, lows)
             minusDM == MinusDM(highs, lows)
             dx == DirectionalMovement(<<>>, n + 1,
                                       Sum(FirstOf(trueRanges, n)),
                                       Sum(FirstOf(plusDM, n)),
                                       Sum(FirstOf(minusDM, n)),
                                       trueRanges, plusDM, minusDM, n)
         IN  IF Len(dx) < n
               THEN Null
               ELSE Number(WilderSmoothing(Sum(FirstOf(dx, n)) \div n, dx, n + 1, n))

calculateBollingerBands(data, n, stdDev) ==
  IF Len(data) < n
    THEN Null
    ELSE LET slice == LastOf(data, n)
             middle == Sum(slice) \div n
             squaredDiffs == [i \in DOMAIN slice |-> (slice[i] - middle) * (slice[i] - middle)]
             variance == Sum(squaredDiffs) \div n
             standardDeviation == Sqrt(variance)
         IN  Number([upper |-> middle + standardDeviation * stdDev,
                     middle |-> middle,
                     lower |-> middle - standardDeviation * stdDev])

\* for (let i = slowPeriod; i <= data.length; i++): the MACD of every prefix.
RECURSIVE MACDValues(_, _, _, _, _)
MACDValues(macdValues, data, i, fastPeriod, slowPeriod) ==
  IF i > Len(data)
    THEN macdValues
    ELSE LET fast == calculateEMA(FirstOf(data, i), fastPeriod)
             slow == calculateEMA(FirstOf(data, i), slowPeriod)
         IN  MACDValues(IF fast # Null /\ slow # Null
                          THEN Append(macdValues, fast[1] - slow[1])
                          ELSE macdValues,
                        data, i + 1, fastPeriod, slowPeriod)

calculateMACD(data, fastPeriod, slowPeriod, signalPeriod) ==
  IF Len(data) < slowPeriod + signalPeriod
    THEN Null
    ELSE LET fastEMA == calculateEMA(data, fastPeriod)
             slowEMA == calculateEMA(data, slowPeriod)
         IN  IF fastEMA = Null \/ slowEMA = Null
               THEN Null
               ELSE LET macdLine == fastEMA[1] - slowEMA[1]
                        macdValues == MACDValues(<<>>, data, slowPeriod, fastPeriod, slowPeriod)
                        signalLine == calculateEMA(macdValues, signalPeriod)
                    IN  IF signalLine = Null
                          THEN Null
                          ELSE Number([macd |-> macdLine,
                                       signal |-> signalLine[1],
                                       histogram |-> macdLine - signalLine[1]])

calculateATR(highs, lows, closings, n) ==
  IF Len(highs) < n + 1
    THEN Null
    ELSE LET trueRanges == TrueRanges(highs, lows, closings)
         IN  IF Len(trueRanges) < n
               THEN Null
               ELSE Number(WilderSmoothing(Sum(FirstOf(trueRanges, n)) \div n,
                                           trueRanges, n + 1, n))

\* Every indicator function applied to the series, as calculateAllIndicators
\* applies them (highs and lows default to the prices), with the period drawn
\* for the run; MACD is fast = period, slow = period + 1.
CalculateAllIndicators ==
  /\ indicators = NotCalculated
  /\ indicators' = [calculated |-> TRUE,
                    rsi |-> calculateRSI(prices, period),
                    adx |-> calculateADX(prices, prices, prices, period),
                    bollinger |-> calculateBollingerBands(prices, period, 2),
                    sma |-> calculateSMA(prices, period),
                    ema |-> calculateEMA(prices, period),
                    macd |-> calculateMACD(prices, period, period + 1, SignalPeriod),
                    atr |-> calculateATR(prices, prices, prices, period)]
  /\ UNCHANGED <<now, wsVars, queueVars, isRunning, isPaused, priceHistory,
                 symbolAdjustments, positions, activeTrades, ticks, signals, calibVars,
                 prices, period, observerVars>>

\* Every series of up to MaxLen quotes, each 100 or 103, and every period up
\* to MaxPeriod.
RECURSIVE Series(_)
Series(n) ==
  IF n = 0
    THEN {<<>>}
    ELSE Series(n - 1)
           \cup {Append(d, q) : d \in {e \in Series(n - 1) : Len(e) = n - 1},
                                q \in {100 * Scale, 103 * Scale}}

InitIndicators ==
  /\ Constructed
  /\ prices \in Series(MaxLen)
  /\ period \in 1..MaxPeriod
  /\ indicators = NotCalculated

NextIndicators == CalculateAllIndicators

SpecIndicators == InitIndicators /\ [][NextIndicators]_vars

\* C27: every indicator function returns null, no number, for every input
\* shorter than its window: period for SMA, EMA and Bollinger, period + 1 for
\* RSI and ATR, 2 x period for ADX, slow + signal for MACD.
C27_ShortInputIsUnavailable ==
  indicators.calculated =>
    /\ Len(prices) < period => indicators.sma = Null
    /\ Len(prices) < period => indicators.ema = Null
    /\ Len(prices) < period => indicators.bollinger = Null
    /\ Len(prices) < period + 1 => indicators.rsi = Null
    /\ Len(prices) < period + 1 => indicators.atr = Null
    /\ Len(prices) < 2 * period => indicators.adx = Null
    /\ Len(prices) < (period + 1) + SignalPeriod => indicators.macd = Null

C27_Witness ==
  /\ indicators.calculated
  /\ period = MaxPeriod
  /\ Len(prices) = period
  /\ indicators.sma # Null
  /\ indicators.ema # Null
  /\ indicators.bollinger # Null
  /\ indicators.rsi = Null
  /\ indicators.atr = Null
  /\ indicators.adx = Null
  /\ indicators.macd = Null

\* Statistics of an engine in a calibration pause: the seventeenth trade, a
\* loss, left 11 wins of 17 and paused it; one win was recorded after that; two
\* wins were.  pauseForCalibration has cleared the adjustments and wins add none.
PausedStarts ==
  {[totalTrades |-> 17, wins |-> 11, lossRun |-> [R_10 |-> 0, R_25 |-> 0]],
   [totalTrades |-> 18, wins |-> 12, lossRun |-> [R_10 |-> 0, R_25 |-> 0]],
   [totalTrades |-> 19, wins |-> 13, lossRun |-> [R_10 |-> 0, R_25 |-> 0]]}

\* The engine paused by a closeTrade at 3000, with two positions still open.
InitResume ==
  /\ TwoOpenPositions
  /\ isPaused = TRUE
  /\ pauseTimers = <<now + CALIBRATION_PAUSE_MS>>
  /\ pausedAt = now
  /\ \E st \in PausedStarts : ClosedTrades(st)

SpecResume == InitResume /\ [][NextCalibration]_vars

\* C21: when a calibration pause completes (isPaused goes back to false) the
\* adjustment of every instrument is exactly zero.
C21_ResumeWithZeroAdjustments ==
  [][(isPaused /\ ~isPaused') => \A s \in Symbols : symbolAdjustments'[s] = Zero]_vars

\* The journal holds closed trades with an outcome.
JournalOfClosedTrades ==
  \A i \in DOMAIN tradeJournal :
    tradeJournal[i] # 0 =>
      /\ positions[tradeJournal[i]].status = "closed"
      /\ positions[tradeJournal[i]].result \in {"win", "loss"}

\* C22: the status of a position changes only from pending to open (the venue
\* has confirmed the order), from pending to closed (the order was rejected;
\* nothing is journaled) or from open to closed (closeTrade, which journals it);
\* closed is final; every entry of the journal is closed with a win or a loss.
C22_PositionLifecycle ==
  /\ []JournalOfClosedTrades
  /\ [][\A k \in DOMAIN positions :
          positions'[k].status # positions[k].status =>
            \/ /\ positions[k].status = "pending"
               /\ positions'[k].status = "open"
               /\ calls[positions[k].call].result.settled
               /\ calls[positions[k].call].result.success
            \/ /\ positions[k].status = "pending"
               /\ positions'[k].status = "closed"
               /\ calls[positions[k].call].result.settled
               /\ ~calls[positions[k].call].result.success
               /\ tradeJournal' = tradeJournal
            \/ /\ positions[k].status = "open"
               /\ positions'[k].status = "closed"
               /\ tradeJournal' = Append(tradeJournal, k)]_vars

\* C23: the statistics that getStats returns are a projection of the positions:
\* totalTrades = wins + losses = the number of journal entries, winRate =
\* wins / totalTrades (0 without trades), activeTradesCount = the number of
\* positions in activeTrades.
C23_StatsAreProjection ==
  /\ GetStats.totalTrades = GetStats.wins + GetStats.losses
  /\ GetStats.totalTrades = Len(tradeJournal)
  /\ SameQuotient(GetStats.winRate, Quotient(GetStats.wins, GetStats.totalTrades))
  /\ GetStats.activeTradesCount = Cardinality(DOMAIN activeTrades)

\* C24: every step that creates a position or changes one (to open, to closed,
\* its price or its P/L) hands that position to the trade handlers.
C24_MutationsAreNotified ==
  [][\A k \in DOMAIN positions' :
       (k \notin DOMAIN positions \/ positions'[k] # positions[k]) => k \in notified']_vars

\* C25: a tick of instrument s handled while the engine is running gives every
\* open position on s the quote as its current price and the profit
\* (quote - entryPrice) * (1 for LONG, -1 for SHORT) * 100, and leaves the
\* positions on other instruments and the pending positions as they are.
C25_TickUpdatesOpenPositions ==
  [][(IsTick /\ isRunning) =>
       \E s \in Symbols, q \in Quotes :
         /\ priceHistory' = [priceHistory EXCEPT ![s] = PushHistory(@, q)]
         /\ \A k \in DOMAIN positions :
              IF positions[k].symbol = s /\ positions[k].status = "open"
                THEN /\ positions'[k].currentPrice = q
                     /\ positions'[k].profit =
                          (q - positions[k].entryPrice)
                            * (IF positions[k].direction = "LONG" THEN 1 ELSE -1) * 100
                ELSE positions'[k] = positions[k]]_vars

\* =================================================== the price history
\* history after handleTick has run n times with the same tick.
RECURSIVE PushTimes(_, _, _)
PushTimes(history, quote, n) ==
  IF n = 0 THEN history ELSE PushTimes(PushHistory(history, quote), quote, n - 1)

\* A tick message: handleMessage hands the tick to every handler registered
\* under '*', each a handleTick of the engine; the probability that
\* calculateTradeProbability makes of the history yields no signal.
DispatchTick(gap, symbol, quote, probability) ==
  /\ ~ContinuationRunnable
  /\ ticks < MaxTicks
  /\ now' = now + gap
  /\ ticks' = ticks + 1
  /\ ~EmitsSignal(isPaused, priceHistory[symbol], probability, symbolAdjustments[symbol])
  /\ IF ~isRunning \/ tickHandlers = 0
     THEN UNCHANGED <<priceHistory, positions, activeTradesCount, notified>>
     ELSE /\ priceHistory' =
               [priceHistory EXCEPT ![symbol] = PushTimes(@, quote, tickHandlers)]
          /\ positions' = UpdateActiveTrades(positions, activeTrades, symbol, quote)
          /\ notified' = OpenOn(positions, activeTrades, symbol)
          /\ activeTradesCount' = Cardinality(DOMAIN activeTrades)
  /\ UNCHANGED <<wsVars, queueVars, isRunning, isPaused, symbolAdjustments, activeTrades,
                 signals, calibVars, indicatorVars, tradeJournal, losses, winRate>>

\* The started engine with no history yet or one quote short of HISTORY_SIZE.
InitHistory ==
  /\ Started
  /\ priceHistory \in [Symbols -> {<<>>, [i \in 1..(HISTORY_SIZE - 1) |-> 100]}]

\* The engine stopped and started by its user while ticks arrive.
NextHistory ==
  \/ Start
  \/ Stop
  \/ \E gap \in TickGaps, s \in Symbols, q \in Quotes : DispatchTick(gap, s, q, 70)

SpecHistory == InitHistory /\ [][NextHistory]_vars

\* C26: no history holds more than HISTORY_SIZE quotes; a tick handled while
\* the engine is running appends its quote to the history of its instrument,
\* once, the oldest quote leaving when the bound would be exceeded; nothing else
\* changes a history.
C26_HistoryIsRecentQuotes ==
  /\ [](\A s \in Symbols : Len(priceHistory[s]) <= HISTORY_SIZE)
  /\ [][IF IsTick /\ isRunning
          THEN \E s \in Symbols, q \in Quotes :
                 priceHistory' = [priceHistory EXCEPT ![s] = PushHistory(@, q)]
          ELSE priceHistory' = priceHistory]_vars

\* ============================================= the flush and admissions
\* The queue draining with one more addTrade call, so that an intent can be
\* admitted after a flush that removed a queued one.
NextFlush ==
  \/ \E s \in Symbols, p \in Priorities : AddTradeWithin(s, p, MaxTrades + 1)
  \/ ProcessLoopIteration
  \/ ExecuteTradeResume
  \/ ProcessLoopFinally
  \/ ClearQueue
  \/ \E c \in DOMAIN calls : \E ok \in BOOLEAN, err \in VenueErrors :
       VenueRespond(c, ok, err) /\ UNCHANGED <<queueVars, engineVars>>
  \/ \E c \in DOMAIN calls : CallTimeout(c) /\ UNCHANGED <<queueVars, engineVars>>
  \/ \E t \in Instants : Advance(t) /\ UNCHANGED <<queueVars, engineVars>>

SpecFlush == Init /\ [][NextFlush]_vars

\* The step in which executeTrade resumes with a rate-limit error.
IsFlush ==
  /\ IsExecutionEnd
  /\ ~calls[buyCall].result.success
  /\ IsRateLimitError(calls[buyCall].result.error)

QueuedIds(q) == {q[i].id : i \in DOMAIN q}

\* C31: the step of a rate-limit error empties the queue, resolves every intent
\* it removes as cancelled with the rate-limit cancellation, once, and admits
\* nothing; an intent is resolved with that cancellation only in such a step in
\* which it was queued; an admitted intent is queued after its admission and
\* leaves the queue only when it is taken for execution, flushed or cleared.
C31_FlushIsAtomic ==
  [][/\ IsFlush =>
          /\ queue' = <<>>
          /\ ~IsAddTrade
          /\ \A t \in QueuedIds(queue) :
               /\ trades'[t].status = "cancelled"
               /\ trades'[t].result = Failure(RateLimitCancelError)
               /\ trades'[t].resolveCalls = 1
     /\ \A t \in DOMAIN trades :
          (trades'[t].result = Failure(RateLimitCancelError)
             /\ trades[t].result # Failure(RateLimitCancelError))
          => IsFlush /\ t \in QueuedIds(queue)
     /\ (IsAddTrade /\ Added.status = "pending") =>
          /\ ~IsFlush
          /\ Len(trades') \in QueuedIds(queue')
     /\ \A t \in QueuedIds(queue) \ QueuedIds(queue') :
          \/ IsPop /\ t = Head(queue).id
          \/ IsFlush
          \/ trades'[t].result = Failure(ManualCancelError)]_vars

\* A flush has cancelled a queued intent and an intent admitted later is queued.
C31_Witness ==
  /\ flushCount >= 1
  /\ \E t \in DOMAIN trades : \E i \in DOMAIN queue :
       /\ trades[t].result = Failure(RateLimitCancelError)
       /\ queue[i].id > t
       /\ queue[i].addedAt >= lastExecutionTime

\* ============================================ the connection lifecycle
\* The sockets of the connection with disconnect() called by the application.
NextLifecycle ==
  \/ NextSocket
  \/ Disconnect /\ UNCHANGED <<queueVars, engineVars>>

SpecLifecycle == InitConn /\ [][NextLifecycle]_vars

\* The steps of ws.onopen, ws.onerror, ws.onclose, of connect() making a socket
\* and of handleMessage with data.authorize.
IsOpenEvent == opens' = opens + 1
IsErrorEvent == ~FailedSocket /\ FailedSocket'
IsCloseEvent == status # "disconnected" /\ status' = "disconnected"
IsConnect == readyState # "CONNECTING" /\ readyState' = "CONNECTING"
IsAuthorized == acks' = acks + 1

\* C32: the status becomes connected only from connecting (the socket opens),
\* authorized only from connected or authorized (the authorize response),
\* connecting only from disconnected or error (connect() makes a socket), error
\* only when the socket fails and disconnected only when it closes.
C32_StatusTransitions ==
  [][/\ IsOpenEvent => status = "connecting" /\ status' = "connected"
     /\ IsAuthorized => status \in {"connected", "authorized"} /\ status' = "authorized"
     /\ IsConnect => status \in {"disconnected", "error"} /\ status' = "connecting"
     /\ status' # status =>
          \/ IsOpenEvent
          \/ IsAuthorized
          \/ IsConnect
          \/ IsErrorEvent /\ status' = "error"
          \/ status' = "disconnected" /\ readyState' = "CLOSED"]_vars

\* The connection is authorized on its second socket.
C32_Witness == status = "authorized" /\ opens = 2 /\ acks = 2

\* C33: a close with k - 1 attempts made since the last open (k = 1 ..
\* MAX_RECONNECT_ATTEMPTS) makes the k-th attempt after RECONNECT_DELAY_MS *
\* 2^(k-1); an open sets the count of attempts to 0; nothing else changes it.
C33_ExponentialBackoff ==
  [][/\ (IsCloseEvent /\ reconnectAttempts < MAX_RECONNECT_ATTEMPTS) =>
          /\ reconnectAttempts' = reconnectAttempts + 1
          /\ reconnectAt' = now + RECONNECT_DELAY_MS * 2^(reconnectAttempts' - 1)
     /\ IsOpenEvent => reconnectAttempts' = 0
     /\ (~IsCloseEvent /\ ~IsOpenEvent) => reconnectAttempts' = reconnectAttempts]_vars

\* The last attempt is scheduled, 16 times the base delay after the close, on
\* a connection that had opened.
C33_Witness ==
  /\ reconnectAttempts = MAX_RECONNECT_ATTEMPTS
  /\ reconnectAt = now + 16 * RECONNECT_DELAY_MS
  /\ opens >= 1

\* C35: the close event of a socket closed by disconnect() schedules no
\* reconnection and counts no attempt.
C35_DisconnectIsFinal ==
  [][(readyState = "CLOSING" /\ IsCloseEvent) =>
       /\ reconnectAt' = 0
       /\ reconnectAttempts' = reconnectAttempts]_vars

\* ======================================= the adjustments between resets
\* a + b without rounding
ExactSum(a, b) == Carry(a.hi + b.hi, a.lo + b.lo)

\* A loss is recorded in this step.
IsLoss == losses' = losses + 1

\* No adjustment is negative; a step that pauses the engine resets them; of the
\* other steps only a recorded loss changes one, and does not lower it.
AdjustmentsNeverDecrease ==
  /\ [](\A s \in Symbols : ~Less(symbolAdjustments[s], Zero))
  /\ [][IF IsPauseTrigger
          THEN symbolAdjustments' = [s \in Symbols |-> Zero]
          ELSE IF IsLoss
          THEN \E s \in Symbols :
                 /\ Less(symbolAdjustments[s], symbolAdjustments'[s])
                 /\ symbolAdjustments' = [symbolAdjustments EXCEPT ![s] = symbolAdjustments'[s]]
          ELSE symbolAdjustments' = symbolAdjustments]_vars

\* C34: no adjustment is ever negative and between two resets none decreases:
\* wins, ticks and signals leave the adjustments unchanged and each recorded
\* loss raises the adjustment of its instrument by exactly ADJUSTMENT_STEP.
C34_AdjustmentsMonotone ==
  /\ AdjustmentsNeverDecrease
  /\ [][(IsLoss /\ ~IsPauseTrigger) =>
          \E s \in Symbols :
            symbolAdjustments' =
              [symbolAdjustments EXCEPT ![s] = ExactSum(@, ADJUSTMENT_STEP)]]_vars

\* ===================================== closeTrade of an unknown position
\* The step of a closeTrade call.
IsCloseTrade == closes' = closes + 1

\* C39: a closeTrade that finds no position under its id in the active set (it
\* removes none) changes no position, statistic, journal entry, adjustment,
\* pause state or published value; a closeTrade that finds one journals it and
\* counts it, and no position is journaled twice.
C39_UnknownCloseChangesNothing ==
  /\ [](\A i, j \in DOMAIN tradeJournal :
          (i # j /\ tradeJournal[i] # 0) => tradeJournal[i] # tradeJournal[j])
  /\ [][IsCloseTrade =>
          IF activeTrades' = activeTrades
            THEN UNCHANGED <<positions, totalTrades, wins, losses, winRate, tradeJournal,
                             symbolAdjustments, isPaused, pauseTimers, pausedAt,
                             activeTradesCount, notified>>
            ELSE /\ totalTrades' = totalTrades + 1
                 /\ \E id \in DOMAIN activeTrades :
                      /\ activeTrades' = MapDelete(activeTrades, id)
                      /\ tradeJournal' = Append(tradeJournal, activeTrades[id])]_vars

\* A position has been closed and counted, and a second closeTrade has been
\* called with nothing more counted.
C39_Witness ==
  /\ closes = 2
  /\ Len(tradeJournal) = 20
  /\ totalTrades = 20
  /\ notified # {}

\* ============================================= the engine's tick handler
\* C36: whatever start() and stop() calls came before, at most one handleTick
\* of the engine is registered on the connection, and a tick delivered while
\* the engine is running is applied once: one quote appended to the history of
\* its instrument, the histories of the others unchanged.
C36_TickAppliedOnce ==
  /\ [](tickHandlers <= 1)
  /\ [][(IsTick /\ isRunning) =>
          \E s \in Symbols, q \in Quotes :
            priceHistory' = [priceHistory EXCEPT ![s] = PushHistory(@, q)]]_vars

\* ======================================== the pending set of the queue
\* C37: an addTrade for an instrument with no admitted intent that is still
\* unresolved (so also the addTrade its submitter makes on receiving the result
\* of the executed intent) is never rejected with the debounce failure.
C37_DebounceEndsAtResolution ==
  [][(IsAddTrade /\ ~Outstanding(Added.symbol)) =>
       Added.result # Failure(DebounceError)]_vars

\* C38: once the backoff window of a rate-limit error has expired the queue
\* eventually leaves the throttled state, whether an intent is queued or not.
C38_ThrottleEnds ==
  (isThrottled /\ now >= throttleEndsAt) ~> (~isThrottled /\ throttleEndsAt = 0)

\* C40: pendingSymbols is the set of the instruments of the queued intents and
\* of the intent that is executing, and no two queued intents share an
\* instrument.
C40_PendingSetMatchesIntents ==
  /\ pendingSymbols = SymbolsOf(queue) \cup {trades[t].symbol : t \in Executing}
  /\ \A i, j \in DOMAIN queue : i # j => queue[i].symbol # queue[j].symbol

\* pendingSymbols is the set of the instruments of the queued intents and of the
\* intent processLoop has taken and not yet released in its finally block.
PendingSetUntilFinally ==
  /\ pendingSymbols =
       SymbolsOf(queue) \cup (IF current = NoTrade THEN {} ELSE {current.symbol})
  /\ \A i, j \in DOMAIN queue : i # j => queue[i].symbol # queue[j].symbol

====
